------------------------------ MODULE CapTable ------------------------------
(***************************************************************************)
(* Capabilities (capabilities/src/lib.rs) and the per-task tables the ABI  *)
(* resolves them in (scheduler/src/lib.rs, abi/src/lib.rs).  A capability  *)
(* is an object, a right and the object's epoch when it was minted; it is  *)
(* live while the object still has that epoch, and revoking any of an      *)
(* object's capabilities bumps the epoch.  Kernel code holds typed tokens  *)
(* (Cap<T, R>, freely copied); a task holds entries of its table, put      *)
(* there by the kernel when the task is created, or by a transfer that a   *)
(* live Grant capability for the same object gates.  The epochs, the       *)
(* tables and the registry of tables have locks of their own, so a         *)
(* revocation, a transfer or a task's exit may fall between any two steps  *)
(* of an operation.                                                        *)
(***************************************************************************)
EXTENDS Integers, Sequences

CONSTANTS Obj, NoObj, \* indices of the object table, and none of them
          Task,       \* task ids, never used twice
          Actor,      \* threads of control in the kernel
          Right,      \* the rights of this instance
          EpochMod,   \* 2^32: epochs are u32
          Reserved, Initial, MaxSlots,  \* RESERVED_SLOTS, INITIAL_SLOTS, MAX_SLOTS
          MaxRevs     \* bound on the revocations of an object

AllRights == {"Read", "Write", "Grant", "Spend", "Invoke", "Create"}

ASSUME CapAssumption ==
    /\ NoObj \notin Obj /\ Right \subseteq AllRights /\ EpochMod \in Nat \ {0, 1} /\ MaxRevs \in Nat
    /\ Reserved \in Nat /\ Initial \in Nat /\ MaxSlots \in Nat
    /\ 0 < Reserved /\ Reserved <= Initial /\ Initial <= MaxSlots

VARIABLES epoch, kind, minted,  \* object_table; minted: the right of the first
                                \* capability, or "none" while there is no object
          revs,                 \* history: revocations of each object
          caps,                 \* the typed tokens that were made
          alive,                \* TASK_CAP_TABLES: the tasks it lists
          born,                 \* the task ids handed out
          slots, nextBootstrap, nextGeneral,  \* each task's CapTable
          op                    \* each actor's table operation in progress

objVars == <<epoch, kind, minted, revs>>
tabVars == <<slots, nextBootstrap, nextGeneral>>
vars == <<objVars, caps, alive, born, tabVars, op>>

\* The kinds of objects, told apart where a Create capability is used.
Kind(r) == IF r = "Create" THEN {"Task", "Other"} ELSE {"Other"}
Cap == [obj : Obj, gen : 0 .. EpochMod - 1, right : Right]
Empty == [obj |-> NoObj, gen |-> 0, right |-> "none"]
NoOp == [at |-> "idle"]
Op == {NoOp} \cup [at : {"check", "find", "install", "bootstrap"}, to : Task, entry : Cap]

\* The slots of a table that hold an entry: each region up to its cursor.
Filled(t) == (1 .. nextBootstrap[t]) \cup (Reserved + 1 .. nextGeneral[t])

\* The type of every variable: a table has a slot for every entry that was put
\* in it, and nothing beyond its cursors.
TypeOK ==
    /\ epoch \in [Obj -> 0 .. EpochMod - 1] /\ kind \in [Obj -> {"Task", "Other"}]
    /\ minted \in [Obj -> Right \cup {"none"}] /\ revs \in [Obj -> 0 .. MaxRevs]
    /\ caps \subseteq Cap /\ alive \subseteq born /\ born \subseteq Task
    /\ op \in [Actor -> Op]
    /\ slots \in [Task -> Seq(Cap \cup {Empty})]
    /\ nextBootstrap \in [Task -> 0 .. Reserved] /\ nextGeneral \in [Task -> Reserved .. MaxSlots]
    /\ \A t \in Task :
         /\ Len(slots[t]) \in Initial .. MaxSlots /\ nextGeneral[t] <= Len(slots[t])
         /\ \A i \in 1 .. Len(slots[t]) : slots[t][i] = Empty <=> i \notin Filled(t)

Init ==
    /\ epoch = [o \in Obj |-> 0] /\ kind = [o \in Obj |-> "Other"]
    /\ minted = [o \in Obj |-> "none"] /\ revs = [o \in Obj |-> 0]
    /\ caps = {} /\ alive = {} /\ born = {}
    /\ slots = [t \in Task |-> [i \in 1 .. Initial |-> Empty]]
    /\ nextBootstrap = [t \in Task |-> 0] /\ nextGeneral = [t \in Task |-> Reserved]
    /\ op = [a \in Actor |-> NoOp]

----------------------------------------------------------------------------
(* Typed capabilities. *)

\* The SubsetOf lattice: a capability with right s may derive one with r.
SubsetOf(r, s) ==
    \/ r = s
    \/ s = "Grant" /\ r \in {"Read", "Write", "Spend", "Invoke"}
    \/ r = "Read" /\ s \in {"Write", "Invoke", "Spend"}

\* check_live
Live(c) == minted[c.obj] # "none" /\ epoch[c.obj] = c.gen

\* object_table::register, and the token for the new object.
Register(o, r, k) ==
    /\ minted[o] = "none"
    /\ minted' = [minted EXCEPT ![o] = r] /\ kind' = [kind EXCEPT ![o] = k]
    /\ epoch' = [epoch EXCEPT ![o] = 1]
    /\ caps' = caps \cup {[obj |-> o, gen |-> 1, right |-> r]}
    /\ UNCHANGED <<revs, alive, born, tabVars, op>>

\* Cap::bootstrap, the mint that is not gated.
Bootstrap(o, r, k) == Register(o, r, k)

\* Cap::bootstrap_with, gated by a live Create capability for a task.
BootstrapWith(c, o, r, k) ==
    /\ c.right = "Create" /\ kind[c.obj] = "Task" /\ Live(c)
    /\ Register(o, r, k)

\* Mutant: the derived capability takes the object's epoch of today.
DeriveRenewed(c, r) ==
    /\ SubsetOf(r, c.right)
    /\ caps' = caps \cup {[c EXCEPT !.right = r, !.gen = epoch[c.obj]]}
    /\ UNCHANGED <<objVars, alive, born, tabVars, op>>

\* A weaker capability, of the same generation.
Derive(c, r) ==
    /\ Live(c) /\ SubsetOf(r, c.right)
    /\ caps' = caps \cup {[c EXCEPT !.right = r]}
    /\ UNCHANGED <<objVars, alive, born, tabVars, op>>

\* Any token of the object revokes them all, whether it is live or not.
Revoke(c) ==
    /\ revs[c.obj] < MaxRevs
    /\ epoch' = [epoch EXCEPT ![c.obj] = (@ + 1) % EpochMod]
    /\ revs' = [revs EXCEPT ![c.obj] = @ + 1]
    /\ UNCHANGED <<kind, minted, caps, alive, born, tabVars, op>>

----------------------------------------------------------------------------
(* The registry of tables: spawn and the last drop of a task's slot. *)

Spawn(t) ==
    /\ t \notin born
    /\ born' = born \cup {t} /\ alive' = alive \cup {t}
    /\ UNCHANGED <<objVars, caps, tabVars, op>>

Exit(t) ==
    /\ t \in alive
    /\ alive' = alive \ {t}
    /\ UNCHANGED <<objVars, caps, born, tabVars, op>>

----------------------------------------------------------------------------
(* Installing entries.  An actor that found a table keeps it, registered or *)
(* not, and a capability it found live may be revoked before the install.   *)

Start(a, o) ==
    /\ op[a] = NoOp
    /\ op' = [op EXCEPT ![a] = o]
    /\ UNCHANGED <<objVars, caps, alive, born, tabVars>>

Become(a, o) ==
    /\ op' = [op EXCEPT ![a] = o]
    /\ UNCHANGED <<objVars, caps, alive, born, tabVars>>

\* install_task_bootstrap_cap: the table is found and the token is live ...
StartBootstrap(a, t, c) ==
    /\ t \in alive /\ Live(c)
    /\ Start(a, [at |-> "bootstrap", to |-> t, entry |-> c])

\* ... and goes to the next reserved slot, or the region is full.
InstallBootstrap(a) ==
    /\ op[a].at = "bootstrap"
    /\ LET t == op[a].to
           n == nextBootstrap[t] + 1
       IN IF n <= Reserved
          THEN /\ slots' = [slots EXCEPT ![t][n] = op[a].entry]
               /\ nextBootstrap' = [nextBootstrap EXCEPT ![t] = n]
          ELSE UNCHANGED <<slots, nextBootstrap>>
    /\ op' = [op EXCEPT ![a] = NoOp]
    /\ UNCHANGED <<objVars, caps, alive, born, nextGeneral>>

\* Mutant: the two capabilities need not name the same object.
GatedByAny(g, c) == g.right = "Grant" /\ Live(g) /\ minted[c.obj] # "none"

\* g is a live Grant capability for the object of c.
Gated(g, c) == g.right = "Grant" /\ Live(g) /\ g.obj = c.obj

\* Cap<T, Grant>::transfer of one of the kernel's tokens into a table it holds:
\* the grant is live, and then the transferred capability.
StartTyped(a, g, c, t) ==
    /\ t \in born /\ Gated(g, c)
    /\ Start(a, [at |-> "check", to |-> t, entry |-> c])

CheckTyped(a) ==
    /\ op[a].at = "check"
    /\ Become(a, IF Live(op[a].entry) THEN [op[a] EXCEPT !.at = "install"] ELSE NoOp)

\* OpCode::CapTransfer, transfer_task_cap: both presented slots are resolved
\* in the sender's own table (CapTable::lookup), the grant one with the Grant
\* right, which only a Grant entry covers.  Where the entries do not match,
\* install_transfer later refuses; here the transfer does not start.
StartTransfer(a, s, t, i, j) ==
    /\ s \in alive /\ {i, j} \subseteq 1 .. Len(slots[s])
    /\ LET g == slots[s][i]
           c == slots[s][j]
       IN /\ g # Empty /\ c # Empty /\ Gated(g, c) /\ Live(c)
          /\ Start(a, [at |-> "find", to |-> t, entry |-> c])

\* The receiver is looked up when both are resolved.
FindReceiver(a) ==
    /\ op[a].at = "find"
    /\ Become(a, IF op[a].to \in alive THEN [op[a] EXCEPT !.at = "install"] ELSE NoOp)

\* The slots of a table with room for one more general entry: it doubles.
Grown(t) ==
    IF nextGeneral[t] < Len(slots[t]) THEN slots[t]
    ELSE LET n == Len(slots[t])
             m == IF 2 * n < MaxSlots THEN 2 * n ELSE MaxSlots
         IN [i \in 1 .. m |-> IF i <= n THEN slots[t][i] ELSE Empty]

\* Mutant: the limit is off by one.
InstallPastMax(a) ==
    /\ op[a].at = "install"
    /\ LET t == op[a].to
           n == nextGeneral[t] + 1
       IN IF nextGeneral[t] <= MaxSlots
          THEN /\ slots' = [slots EXCEPT ![t] = [Grown(t) EXCEPT ![n] = op[a].entry]]
               /\ nextGeneral' = [nextGeneral EXCEPT ![t] = n]
          ELSE UNCHANGED <<slots, nextGeneral>>
    /\ op' = [op EXCEPT ![a] = NoOp]
    /\ UNCHANGED <<objVars, caps, alive, born, nextBootstrap>>

\* Mutant: a full table gives the slot of a revoked capability away.
InstallReuses(a) ==
    /\ op[a].at = "install"
    /\ LET t == op[a].to
           n == nextGeneral[t] + 1
       IN IF nextGeneral[t] < MaxSlots
          THEN /\ slots' = [slots EXCEPT ![t] = [Grown(t) EXCEPT ![n] = op[a].entry]]
               /\ nextGeneral' = [nextGeneral EXCEPT ![t] = n]
          ELSE /\ slots' = [slots EXCEPT ![t] = [i \in DOMAIN @ |->
                              IF i > Reserved /\ ~Live(@[i]) THEN op[a].entry ELSE @[i]]]
               /\ UNCHANGED nextGeneral
    /\ op' = [op EXCEPT ![a] = NoOp]
    /\ UNCHANGED <<objVars, caps, alive, born, nextBootstrap>>

\* install_general: the next slot after the reserved region, or the table is full.
InstallGeneral(a) ==
    /\ op[a].at = "install"
    /\ LET t == op[a].to
           n == nextGeneral[t] + 1
       IN IF nextGeneral[t] < MaxSlots
          THEN /\ slots' = [slots EXCEPT ![t] = [Grown(t) EXCEPT ![n] = op[a].entry]]
               /\ nextGeneral' = [nextGeneral EXCEPT ![t] = n]
          ELSE UNCHANGED <<slots, nextGeneral>>
    /\ op' = [op EXCEPT ![a] = NoOp]
    /\ UNCHANGED <<objVars, caps, alive, born, nextBootstrap>>

Next ==
    \/ \E o \in Obj, r \in Right : \E k \in Kind(r) :
         Bootstrap(o, r, k) \/ \E c \in caps : BootstrapWith(c, o, r, k)
    \/ \E c \in caps : Revoke(c) \/ \E r \in Right : Derive(c, r)
    \/ \E t \in Task : Spawn(t) \/ Exit(t)
    \/ \E a \in Actor :
         \/ InstallBootstrap(a) \/ CheckTyped(a) \/ FindReceiver(a) \/ InstallGeneral(a)
         \/ \E t \in Task :
              \/ \E c \in caps : StartBootstrap(a, t, c) \/ \E g \in caps : StartTyped(a, g, c, t)
              \/ \E s \in Task, i, j \in 1 .. MaxSlots : StartTransfer(a, s, t, i, j)

Spec == Init /\ [][Next]_vars

----------------------------------------------------------------------------
General(t) == {slots[t][i] : i \in Reserved + 1 .. nextGeneral[t]}
Reserve(t) == {slots[t][i] : i \in 1 .. nextBootstrap[t]}

\* Authority never grows.  Whatever was derived, installed, transferred or
\* revoked since, every token and every table entry has a right that the
\* object's first capability could derive, and what came to a table by
\* transfer is a capability of an object that was minted with Grant.
NoAmplification ==
    /\ \A c \in caps : SubsetOf(c.right, minted[c.obj])
    /\ \A t \in Task : /\ \A c \in Reserve(t) : SubsetOf(c.right, minted[c.obj])
                       /\ \A c \in General(t) : /\ SubsetOf(c.right, minted[c.obj])
                                                /\ minted[c.obj] = "Grant"

\* A revocation reaches every holder: an object that was revoked has no live
\* token and no live entry, those installed by an operation that had checked
\* them before the revocation included, until its u32 epoch comes round.
RevokedUntilWrap ==
    \A o \in Obj :
        revs[o] % EpochMod # 0 =>
            /\ \A c \in caps : c.obj = o => ~Live(c)
            /\ \A t \in Task : \A c \in Reserve(t) \cup General(t) : c.obj = o => ~Live(c)

\* A slot number means one capability for the life of its table: an entry is
\* never overwritten, moved or removed, when the table grows included.
SlotsNeverReused ==
    [][\A t \in Task : \A i \in 1 .. Len(slots[t]) :
           slots[t][i] # Empty => i <= Len(slots'[t]) /\ slots'[t][i] = slots[t][i]]_vars

----------------------------------------------------------------------------
(* The inductive strengthening of the properties. *)

\* A capability of the object's first generation whose right the first
\* capability could derive.
Sound(c) == c.gen = 1 /\ SubsetOf(c.right, minted[c.obj])

\* Tokens, entries and operations in progress are sound, and what travels to
\* the general region is of an object that was minted with Grant.
TokensSound == \A c \in caps : Sound(c)

EntriesSound ==
    \A t \in Task : \A i \in Filled(t) :
        Sound(slots[t][i]) /\ (i > Reserved => minted[slots[t][i].obj] = "Grant")

OpsSound ==
    \A a \in Actor : op[a] # NoOp =>
        Sound(op[a].entry) /\ (op[a].at # "bootstrap" => minted[op[a].entry.obj] = "Grant")

\* The epoch of an object counts its revocations, modulo its width.
EpochInv ==
    \A o \in Obj : IF minted[o] = "none" THEN revs[o] = 0
                    ELSE epoch[o] = (1 + revs[o]) % EpochMod

CapInv == TypeOK /\ TokensSound /\ EntriesSound /\ OpsSound /\ EpochInv
=============================================================================
