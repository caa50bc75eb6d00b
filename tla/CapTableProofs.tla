--------------------------- MODULE CapTableProofs ---------------------------
(***************************************************************************)
(* What holds of the capabilities and the tables for every number of       *)
(* objects, tasks and actors, every size of a table and every width of the *)
(* epochs.  The first parts are about the epochs' arithmetic, the rights   *)
(* and one table; Step shows that each action keeps CapInv and every       *)
(* entry, and the properties follow.                                       *)
(***************************************************************************)
EXTENDS CapTable, SequenceTheorems, TLAPS

----------------------------------------------------------------------------
(* The u32 epochs. *)

(***************************************************************************)
(* A remainder is determined by the quotient.                              *)
(***************************************************************************)
LEMMA ModUnique ==
    ASSUME NEW N \in Nat, N > 0, NEW a \in Nat, NEW q \in Int, NEW r \in 0 .. N - 1,
           a = N * q + r
    PROVE  a % N = r
  <1> DEFINE p == a \div N
             s == a % N
  <1>1. a = N * p + s /\ p \in Int /\ s \in 0 .. N - 1
    OBVIOUS
  <1> HIDE DEF p, s
  <1>2. N * p \in Int /\ N * q \in Int /\ N * (p - q) = N * p - N * q
    BY <1>1
  <1>3. N * (p - q) = r - s
    BY <1>1, <1>2
  <1>4. ~(p - q >= 1)
    <2> SUFFICES ASSUME p - q >= 1 PROVE FALSE
      OBVIOUS
    <2>1. N * (p - q) >= N
      BY <1>1
    <2> QED BY <2>1, <1>3, <1>1
  <1>5. ~(p - q <= -1)
    <2> SUFFICES ASSUME p - q <= -1 PROVE FALSE
      OBVIOUS
    <2>1. N * (p - q) <= -N
      BY <1>1
    <2> QED BY <2>1, <1>3, <1>1
  <1>6. p - q = 0
    BY <1>1, <1>4, <1>5
  <1>7. r = s
    BY <1>1, <1>3, <1>6
  <1> QED BY <1>7 DEF s

(***************************************************************************)
(* Bumping the remainder is bumping the count.                             *)
(***************************************************************************)
LEMMA ModBump ==
    ASSUME NEW a \in Nat
    PROVE  ((a % EpochMod) + 1) % EpochMod = (a + 1) % EpochMod
  <1>0. EpochMod \in Nat /\ EpochMod > 1
    BY CapAssumption
  <1> DEFINE q == a \div EpochMod
             s == a % EpochMod
  <1>1. a = EpochMod * q + s /\ q \in Int /\ s \in 0 .. EpochMod - 1
    BY <1>0
  <1> HIDE DEF q, s
  <1>2. CASE s + 1 < EpochMod
    <2>1. a + 1 = EpochMod * q + (s + 1) /\ s + 1 \in 0 .. EpochMod - 1 /\ a + 1 \in Nat
      BY <1>0, <1>1, <1>2
    <2>2. (a + 1) % EpochMod = s + 1
      BY <2>1, <1>0, <1>1, ModUnique
    <2>3. s + 1 = EpochMod * 0 + (s + 1)
      BY <1>0, <1>1
    <2>4. (s + 1) % EpochMod = s + 1
      BY <2>1, <2>3, <1>0, <1>1, ModUnique
    <2> QED BY <2>2, <2>4 DEF s
  <1>3. CASE s + 1 = EpochMod
    <2>1. EpochMod * (q + 1) = EpochMod * q + EpochMod /\ EpochMod * q \in Int /\ q + 1 \in Int
      BY <1>0, <1>1
    <2>2. a + 1 = EpochMod * (q + 1) + 0 /\ a + 1 \in Nat /\ 0 \in 0 .. EpochMod - 1
      BY <2>1, <1>0, <1>1, <1>3
    <2>3. (a + 1) % EpochMod = 0
      BY <2>1, <2>2, <1>0, ModUnique
    <2>4. s + 1 = EpochMod * 1 + 0 /\ s + 1 \in Nat
      BY <1>0, <1>1, <1>3
    <2>5. (s + 1) % EpochMod = 0
      BY <2>2, <2>4, <1>0, ModUnique
    <2> QED BY <2>3, <2>5 DEF s
  <1> QED BY <1>0, <1>1, <1>2, <1>3

(***************************************************************************)
(* The first generation comes back only after a whole round of the epoch.  *)
(***************************************************************************)
LEMMA ModOne ==
    /\ 1 % EpochMod = 1
    /\ \A r \in Nat : (1 + r) % EpochMod = 1 => r % EpochMod = 0
  <1>0. EpochMod \in Nat /\ EpochMod > 1
    BY CapAssumption
  <1>1. 1 % EpochMod = 1
    <2>1. 1 = EpochMod * 0 + 1 /\ 1 \in 0 .. EpochMod - 1
      BY <1>0
    <2> QED BY <2>1, <1>0, ModUnique
  <1>2. ASSUME NEW r \in Nat, (1 + r) % EpochMod = 1
        PROVE  r % EpochMod = 0
    <2> DEFINE q == (1 + r) \div EpochMod
    <2>1. 1 + r = EpochMod * q + ((1 + r) % EpochMod) /\ q \in Int
      BY <1>0
    <2> HIDE DEF q
    <2>2. q \in Int /\ EpochMod * q \in Int
      BY <1>0, <2>1
    <2>3. r = EpochMod * q + 0 /\ 0 \in 0 .. EpochMod - 1
      BY <2>1, <2>2, <1>2, <1>0
    <2> QED BY <2>2, <2>3, <1>0, ModUnique
  <1> QED BY <1>1, <1>2

----------------------------------------------------------------------------
(* Rights. *)

(***************************************************************************)
(* Deriving twice is deriving once; only Grant derives Grant; nothing is   *)
(* derived from no capability.                                             *)
(***************************************************************************)
LEMMA Lattice ==
    /\ \A r, s, m : SubsetOf(r, s) /\ SubsetOf(s, m) => SubsetOf(r, m)
    /\ \A m : SubsetOf("Grant", m) => m = "Grant"
    /\ \A r \in Right : ~SubsetOf(r, "none")
  <1>1. \A r \in Right : r # "none"
    BY CapAssumption DEF AllRights
  <1> QED BY <1>1 DEF SubsetOf

----------------------------------------------------------------------------
(* One table. *)

\* The part of TypeOK about one table.
TableOK(t) ==
    /\ slots[t] \in Seq(Cap \cup {Empty})
    /\ nextBootstrap[t] \in 0 .. Reserved /\ nextGeneral[t] \in Reserved .. MaxSlots
    /\ Len(slots[t]) \in Initial .. MaxSlots /\ nextGeneral[t] <= Len(slots[t])
    /\ \A i \in 1 .. Len(slots[t]) : slots[t][i] = Empty <=> i \notin Filled(t)

(***************************************************************************)
(* No capability is the empty entry.                                       *)
(***************************************************************************)
LEMMA CapNotEmpty ==
    \A c \in Cap : c # Empty
  BY CapAssumption DEF Cap, Empty

(***************************************************************************)
(* What is filled lies within the table and holds capabilities.            *)
(***************************************************************************)
LEMMA FilledFacts ==
    ASSUME NEW t \in Task, TableOK(t)
    PROVE  \A i \in Filled(t) : i \in 1 .. Len(slots[t]) /\ slots[t][i] \in Cap
  <1> SUFFICES ASSUME NEW i \in Filled(t)
               PROVE  i \in 1 .. Len(slots[t]) /\ slots[t][i] \in Cap
    OBVIOUS
  <1>1. Len(slots[t]) \in Nat
    BY LenProperties DEF TableOK
  <1>2. i \in 1 .. Len(slots[t])
    BY <1>1, CapAssumption DEF TableOK, Filled
  <1>3. slots[t][i] \in Cap \cup {Empty}
    BY <1>2, ElementOfSeq DEF TableOK
  <1>4. slots[t][i] # Empty
    BY <1>2 DEF TableOK
  <1> QED BY <1>2, <1>3, <1>4

(***************************************************************************)
(* CapTable's growth makes room for one more entry, and neither moves nor  *)
(* invents one.                                                            *)
(***************************************************************************)
LEMMA GrownFacts ==
    ASSUME NEW t \in Task, TableOK(t), nextGeneral[t] < MaxSlots
    PROVE  /\ Grown(t) \in Seq(Cap \cup {Empty})
           /\ Len(Grown(t)) \in Initial .. MaxSlots
           /\ Len(slots[t]) <= Len(Grown(t)) /\ nextGeneral[t] < Len(Grown(t))
           /\ \A i \in 1 .. Len(Grown(t)) :
                Grown(t)[i] = IF i <= Len(slots[t]) THEN slots[t][i] ELSE Empty
  <1> DEFINE n == Len(slots[t])
             m == IF 2 * n < MaxSlots THEN 2 * n ELSE MaxSlots
             s == [i \in 1 .. m |-> IF i <= n THEN slots[t][i] ELSE Empty]
  <1>0. n \in Nat /\ n \in Initial .. MaxSlots /\ nextGeneral[t] <= n /\ nextGeneral[t] \in Nat
        /\ Initial \in Nat /\ MaxSlots \in Nat /\ 0 < Initial
    BY CapAssumption, LenProperties DEF TableOK
  <1>1. CASE nextGeneral[t] < n
    <2>1. Grown(t) = slots[t]
      BY <1>1 DEF Grown
    <2> QED BY <2>1, <1>0, <1>1 DEF TableOK
  <1>2. CASE ~(nextGeneral[t] < n)
    <2>1. Grown(t) = s
      BY <1>2 DEF Grown
    <2>2. m \in Nat /\ m <= MaxSlots /\ n < m
      BY <1>0, <1>2
    <2>3. \A i \in 1 .. m : i <= n => slots[t][i] \in Cap \cup {Empty}
      BY <1>0, <2>2, ElementOfSeq DEF TableOK
    <2> HIDE DEF m, n
    <2>4. s \in [1 .. m -> Cap \cup {Empty}]
      BY <2>3
    <2>5. s \in Seq(Cap \cup {Empty}) /\ Len(s) = m
      BY <2>2, <2>4
    <2>6. \A i \in 1 .. m : s[i] = IF i <= n THEN slots[t][i] ELSE Empty
      OBVIOUS
    <2> HIDE DEF s
    <2>7. Len(s) \in Initial .. MaxSlots /\ n <= Len(s) /\ nextGeneral[t] < Len(s)
      BY <2>2, <2>5, <1>0
    <2> QED BY <2>1, <2>5, <2>6, <2>7 DEF n
  <1> QED BY <1>1, <1>2

\* The parts of TypeOK: the tables, and the objects, tokens and registry.
TablesOK ==
    /\ slots \in [Task -> Seq(Cap \cup {Empty})]
    /\ nextBootstrap \in [Task -> 0 .. Reserved]
    /\ nextGeneral \in [Task -> Reserved .. MaxSlots]
    /\ \A t \in Task : TableOK(t)

ObjectsOK ==
    /\ epoch \in [Obj -> 0 .. EpochMod - 1] /\ kind \in [Obj -> {"Task", "Other"}]
    /\ minted \in [Obj -> Right \cup {"none"}] /\ revs \in [Obj -> 0 .. MaxRevs]
    /\ caps \subseteq Cap /\ alive \subseteq born /\ born \subseteq Task

(***************************************************************************)
(* TypeOK is these parts and the type of the operations in progress.       *)
(***************************************************************************)
LEMMA TypeOKParts ==
    /\ TypeOK <=> ObjectsOK /\ op \in [Actor -> Op] /\ TablesOK
    /\ TypeOK' <=> ObjectsOK' /\ op' \in [Actor -> Op] /\ TablesOK'
  <1> DEFINE S == Seq(Cap \cup {Empty})
  <1> HIDE DEF S
  <1> QED BY DEF TypeOK, TableOK, ObjectsOK, TablesOK, S

\* e is written to slot n of t's table, which was empty, once the table has
\* grown to s.
Puts(t, s, n, e) ==
    /\ s \in Seq(Cap \cup {Empty}) /\ Len(s) \in Initial .. MaxSlots
    /\ Len(slots[t]) <= Len(s)
    /\ \A i \in 1 .. Len(s) : s[i] = IF i <= Len(slots[t]) THEN slots[t][i] ELSE Empty
    /\ n \in 1 .. Len(s) /\ n \notin Filled(t) /\ e \in Cap
    /\ slots'[t] = [s EXCEPT ![n] = e] /\ Filled(t)' = Filled(t) \cup {n}
    /\ nextBootstrap'[t] \in 0 .. Reserved /\ nextGeneral'[t] \in Reserved .. MaxSlots
    /\ nextGeneral'[t] <= Len(s)

(***************************************************************************)
(* Such a write keeps the table well formed and what it holds.             *)
(***************************************************************************)
LEMMA TablePut ==
    ASSUME NEW t \in Task, TableOK(t), NEW s, NEW n, NEW e, Puts(t, s, n, e)
    PROVE  /\ TableOK(t)'
           /\ \A i \in Filled(t) : i \in Filled(t)' /\ slots'[t][i] = slots[t][i]
           /\ \A i \in Filled(t)' \ Filled(t) : i = n /\ slots'[t][i] = e
  <1> DEFINE S == Cap \cup {Empty}
             w == [s EXCEPT ![n] = e]
             d == Filled(t)
  <1>0. e \in S /\ s \in Seq(S) /\ n \in 1 .. Len(s) /\ Len(s) \in Initial .. MaxSlots
    BY DEF Puts
  <1> HIDE DEF S
  <1>1. w \in Seq(S) /\ Len(w) = Len(s)
        /\ \A i \in 1 .. Len(s) : w[i] = IF i = n THEN e ELSE s[i]
    BY <1>0, ExceptSeq
  <1>2. \A i \in d : i \in 1 .. Len(slots[t])
    BY FilledFacts
  <1>3. Len(slots[t]) \in Nat /\ Len(s) \in Nat
    BY <1>0, LenProperties DEF TableOK
  <1>4. \A i \in 1 .. Len(slots[t]) : slots[t][i] = Empty <=> i \notin d
    BY DEF TableOK
  <1>5. e # Empty
    BY CapNotEmpty DEF Puts
  <1>6. \A i \in 1 .. Len(s) : i \notin d => s[i] = Empty
    BY <1>2, <1>3, <1>4 DEF Puts
  <1>7. \A i \in d : i \in 1 .. Len(s) /\ s[i] = slots[t][i] /\ s[i] # Empty /\ i # n
    BY <1>2, <1>3, <1>4 DEF Puts
  <1>8. slots'[t] = w /\ Filled(t)' = d \cup {n}
    BY DEF Puts
  <1> HIDE DEF w, d
  <1>9. \A i \in 1 .. Len(w) : w[i] = Empty <=> i \notin d \cup {n}
    BY <1>1, <1>5, <1>6, <1>7
  <1>10. TableOK(t)'
    BY <1>0, <1>1, <1>8, <1>9 DEF TableOK, S, Puts
  <1>11. \A i \in d : w[i] = slots[t][i]
    BY <1>1, <1>7
  <1>12. w[n] = e
    BY <1>0, <1>1
  <1> QED BY <1>8, <1>10, <1>11, <1>12 DEF d

(***************************************************************************)
(* An operation in progress has a receiver and a capability.               *)
(***************************************************************************)
LEMMA OpFields ==
    ASSUME NEW o \in Op, o # NoOp
    PROVE  /\ o \in [at : {"check", "find", "install", "bootstrap"}, to : Task, entry : Cap]
           /\ o.to \in Task /\ o.entry \in Cap /\ o.at # "idle"
  BY DEF Op

\* What an install does to the tables: nothing that was filled changes, and
\* what was not holds the capability of the operation.
Installs(a) ==
    /\ \A t \in Task : \A i \in Filled(t) : i \in Filled(t)' /\ slots'[t][i] = slots[t][i]
    /\ \A t \in Task : \A i \in Filled(t)' \ Filled(t) :
         slots'[t][i] = op[a].entry /\ (i > Reserved => op[a].at = "install")

(***************************************************************************)
(* One table is written and the others are left alone.                     *)
(***************************************************************************)
LEMMA OtherTables ==
    ASSUME TablesOK, NEW t \in Task, NEW u \in Task, u # t,
           slots'[u] = slots[u], nextBootstrap'[u] = nextBootstrap[u],
           nextGeneral'[u] = nextGeneral[u]
    PROVE  TableOK(u)' /\ Filled(u)' = Filled(u)
  BY DEF TablesOK, TableOK, Filled

(***************************************************************************)
(* install_bootstrap.                                                      *)
(***************************************************************************)
LEMMA InstallBootstrapEffect ==
    ASSUME TablesOK, NEW a \in Actor, op \in [Actor -> Op], InstallBootstrap(a)
    PROVE  TablesOK' /\ Installs(a)
  <1>1. op[a] \in Op /\ op[a] # NoOp /\ op[a].at = "bootstrap"
    BY DEF InstallBootstrap, NoOp
  <1>2. PICK t \in Task, e \in Cap : t = op[a].to /\ e = op[a].entry
    BY <1>1, OpFields
  <1>3. PICK n : n = nextBootstrap[t] + 1
    OBVIOUS
  <1>4. nextGeneral' = nextGeneral /\ TableOK(t)
    BY DEF InstallBootstrap, TablesOK
  <1>5. CASE ~(n <= Reserved)
    <2>1. UNCHANGED <<slots, nextBootstrap, nextGeneral>>
      BY <1>2, <1>3, <1>4, <1>5 DEF InstallBootstrap
    <2> QED BY <2>1 DEF TablesOK, TableOK, Filled, Installs
  <1>6. CASE n <= Reserved
    <2>1. /\ slots' = [slots EXCEPT ![t] = [slots[t] EXCEPT ![n] = e]]
          /\ nextBootstrap' = [nextBootstrap EXCEPT ![t] = n]
      BY <1>2, <1>3, <1>6 DEF InstallBootstrap
    <2>2. PICK s : s = slots[t]
      OBVIOUS
    <2>3. /\ s \in Seq(Cap \cup {Empty}) /\ Len(s) \in Initial .. MaxSlots /\ Len(s) \in Nat
          /\ nextGeneral[t] <= Len(s) /\ nextGeneral[t] \in Reserved .. MaxSlots
          /\ nextBootstrap[t] \in 0 .. Reserved
      BY <1>4, <2>2, LenProperties DEF TableOK
    <2>4. n \in 1 .. Len(s) /\ n \in 0 .. Reserved /\ n \notin Filled(t)
      BY <1>3, <1>6, <2>3, CapAssumption DEF Filled
    <2>5. slots'[t] = [s EXCEPT ![n] = e] /\ nextBootstrap'[t] = n /\ nextGeneral'[t] = nextGeneral[t]
      BY <2>1, <2>2, <1>4 DEF TablesOK
    <2>6. Filled(t)' = Filled(t) \cup {n}
      BY <2>3, <2>5, <1>3 DEF Filled
    <2>7. \A i \in 1 .. Len(s) : s[i] = IF i <= Len(slots[t]) THEN slots[t][i] ELSE Empty
      BY <2>2, <2>3
    <2>8. Len(slots[t]) <= Len(s) /\ nextGeneral'[t] \in Reserved .. MaxSlots /\ nextGeneral'[t] <= Len(s)
          /\ nextBootstrap'[t] \in 0 .. Reserved
      BY <2>2, <2>3, <2>4, <2>5
    <2>9. /\ TableOK(t)'
          /\ \A i \in Filled(t) : i \in Filled(t)' /\ slots'[t][i] = slots[t][i]
          /\ \A i \in Filled(t)' \ Filled(t) : i = n /\ slots'[t][i] = e
      <3>1. Puts(t, s, n, e)
        BY <2>3, <2>4, <2>5, <2>6, <2>7, <2>8 DEF Puts
      <3> QED BY ONLY <3>1, <1>4, TablePut
    <2>10. \A u \in Task : u # t => /\ slots'[u] = slots[u] /\ nextGeneral'[u] = nextGeneral[u]
                                    /\ nextBootstrap'[u] = nextBootstrap[u]
      BY <2>1, <1>4 DEF TablesOK
    <2>11. \A u \in Task : u # t => TableOK(u)' /\ Filled(u)' = Filled(u)
      BY <2>10, OtherTables
    <2>12. Installs(a)
      <3>1. ~(n > Reserved)
        BY <2>4, CapAssumption
      <3> QED BY <3>1, <1>2, <2>9, <2>10, <2>11 DEF Installs
    <2>13. TablesOK'
      <3> DEFINE S == Seq(Cap \cup {Empty})
      <3>1. slots'[t] \in S /\ slots \in [Task -> S]
        BY <2>9 DEF TableOK, TablesOK
      <3> HIDE DEF S
      <3>2. slots' \in [Task -> S]
        BY <3>1, <2>1, <2>5
      <3>3. nextBootstrap' \in [Task -> 0 .. Reserved]
        BY <2>1, <2>4 DEF TablesOK
      <3> QED BY <3>2, <3>3, <1>4, <2>9, <2>11 DEF TablesOK, S
    <2> QED BY <2>12, <2>13
  <1> QED BY <1>5, <1>6

(***************************************************************************)
(* install_general, with the growth of the table.                          *)
(***************************************************************************)
LEMMA InstallGeneralEffect ==
    ASSUME TablesOK, NEW a \in Actor, op \in [Actor -> Op], InstallGeneral(a)
    PROVE  TablesOK' /\ Installs(a)
  <1>1. op[a] \in Op /\ op[a] # NoOp /\ op[a].at = "install"
    BY DEF InstallGeneral, NoOp
  <1>2. PICK t \in Task, e \in Cap : t = op[a].to /\ e = op[a].entry
    BY <1>1, OpFields
  <1>3. PICK n : n = nextGeneral[t] + 1
    OBVIOUS
  <1>4. nextBootstrap' = nextBootstrap /\ TableOK(t)
    BY DEF InstallGeneral, TablesOK
  <1>5. CASE ~(nextGeneral[t] < MaxSlots)
    <2>1. UNCHANGED <<slots, nextBootstrap, nextGeneral>>
      BY <1>2, <1>3, <1>4, <1>5 DEF InstallGeneral
    <2> QED BY <2>1 DEF TablesOK, TableOK, Filled, Installs
  <1>6. CASE nextGeneral[t] < MaxSlots
    <2>1. PICK s : s = Grown(t)
      OBVIOUS
    <2>2. /\ slots' = [slots EXCEPT ![t] = [s EXCEPT ![n] = e]]
          /\ nextGeneral' = [nextGeneral EXCEPT ![t] = n]
      BY <1>2, <1>3, <1>6, <2>1 DEF InstallGeneral
    <2>3. /\ s \in Seq(Cap \cup {Empty}) /\ Len(s) \in Initial .. MaxSlots
          /\ Len(slots[t]) <= Len(s) /\ nextGeneral[t] < Len(s)
          /\ \A i \in 1 .. Len(s) : s[i] = IF i <= Len(slots[t]) THEN slots[t][i] ELSE Empty
      BY <1>4, <1>6, <2>1, GrownFacts
    <2>4. /\ Len(s) \in Nat /\ Len(s) <= MaxSlots /\ nextGeneral[t] \in Reserved .. MaxSlots
          /\ nextGeneral[t] < Len(s) /\ nextBootstrap[t] \in 0 .. Reserved
      BY <1>4, <2>3, LenProperties, CapAssumption DEF TableOK
    <2>5. /\ n \in 1 .. Len(s) /\ n \in Reserved .. MaxSlots /\ n \notin Filled(t) /\ n <= Len(s)
      BY <1>3, <2>4, CapAssumption DEF Filled
    <2>6. /\ slots'[t] = [s EXCEPT ![n] = e] /\ nextGeneral'[t] = n
          /\ nextBootstrap'[t] = nextBootstrap[t]
      BY <2>2, <1>4 DEF TablesOK
    <2>7. Filled(t)' = Filled(t) \cup {n}
      BY <2>4, <2>6, <1>3, CapAssumption DEF Filled
    <2>8. /\ TableOK(t)'
          /\ \A i \in Filled(t) : i \in Filled(t)' /\ slots'[t][i] = slots[t][i]
          /\ \A i \in Filled(t)' \ Filled(t) : i = n /\ slots'[t][i] = e
      <3>1. Puts(t, s, n, e)
        BY <2>3, <2>4, <2>5, <2>6, <2>7 DEF Puts
      <3> QED BY ONLY <3>1, <1>4, TablePut
    <2>9. \A u \in Task : u # t => /\ slots'[u] = slots[u] /\ nextGeneral'[u] = nextGeneral[u]
                                   /\ nextBootstrap'[u] = nextBootstrap[u]
      BY <2>2, <1>4 DEF TablesOK
    <2>10. \A u \in Task : u # t => TableOK(u)' /\ Filled(u)' = Filled(u)
      BY <2>9, OtherTables
    <2>11. Installs(a)
      BY <1>1, <1>2, <2>8, <2>9, <2>10 DEF Installs
    <2>12. TablesOK'
      <3> DEFINE S == Seq(Cap \cup {Empty})
      <3>1. slots'[t] \in S /\ slots \in [Task -> S]
        BY <2>8 DEF TableOK, TablesOK
      <3> HIDE DEF S
      <3>2. slots' \in [Task -> S]
        BY <3>1, <2>2, <2>6
      <3>3. nextGeneral' \in [Task -> Reserved .. MaxSlots]
        BY <2>2, <2>5 DEF TablesOK
      <3> QED BY <3>2, <3>3, <1>4, <2>8, <2>10 DEF TablesOK, S
    <2> QED BY <2>11, <2>12
  <1> QED BY <1>5, <1>6

----------------------------------------------------------------------------
(* CapInv is inductive. *)

(***************************************************************************)
(* Initially.                                                              *)
(***************************************************************************)
LEMMA InitOK ==
    Init => CapInv
  <1> SUFFICES ASSUME Init PROVE CapInv
    OBVIOUS
  <1> DEFINE z == [i \in 1 .. Initial |-> Empty]
  <1>0. Initial \in Nat /\ Reserved \in Nat /\ MaxSlots \in Nat /\ MaxRevs \in Nat
        /\ EpochMod \in Nat /\ EpochMod > 1 /\ 0 < Reserved /\ Reserved <= Initial /\ Initial <= MaxSlots
    BY CapAssumption
  <1>1. z \in Seq(Cap \cup {Empty}) /\ Len(z) = Initial /\ \A i \in 1 .. Initial : z[i] = Empty
    <2>1. z \in [1 .. Initial -> Cap \cup {Empty}]
      OBVIOUS
    <2> QED BY <2>1, <1>0
  <1> HIDE DEF z
  <1>2. \A t \in Task : slots[t] = z /\ nextBootstrap[t] = 0 /\ nextGeneral[t] = Reserved
    BY DEF Init, z
  <1>3. \A t \in Task : Filled(t) = {}
    BY <1>0, <1>2 DEF Filled
  <1>4. \A t \in Task : TableOK(t)
    BY <1>0, <1>1, <1>2, <1>3 DEF TableOK
  <1>5. TablesOK
    <2> DEFINE S == Seq(Cap \cup {Empty})
    <2>1. z \in S
      BY <1>1
    <2> HIDE DEF S
    <2>2. slots \in [Task -> S]
      BY <2>1 DEF Init, z
    <2>3. nextBootstrap \in [Task -> 0 .. Reserved] /\ nextGeneral \in [Task -> Reserved .. MaxSlots]
      BY <1>0 DEF Init
    <2> QED BY <2>2, <2>3, <1>4 DEF TablesOK, S
  <1>6. ObjectsOK /\ op \in [Actor -> Op]
    BY <1>0 DEF Init, ObjectsOK, Op
  <1>7. TokensSound /\ EntriesSound /\ OpsSound
    BY <1>3 DEF TokensSound, EntriesSound, OpsSound, Init
  <1>8. EpochInv
    BY DEF EpochInv, Init
  <1> QED BY <1>5, <1>6, <1>7, <1>8, TypeOKParts DEF CapInv

\* No step changes the right that a sound capability's object was minted with.
MintKept ==
    \A c \in Cap : SubsetOf(c.right, minted[c.obj]) => minted'[c.obj] = minted[c.obj]

(***************************************************************************)
(* What the actions that leave the tables alone keep.                      *)
(***************************************************************************)
LEMMA TablesFrame ==
    ASSUME TablesOK, UNCHANGED tabVars
    PROVE  TablesOK' /\ (EntriesSound /\ MintKept => EntriesSound')
  <1>1. \A t \in Task : Filled(t)' = Filled(t) /\ slots'[t] = slots[t]
    BY DEF Filled, tabVars
  <1>2. TablesOK'
    BY DEF TablesOK, TableOK, Filled, tabVars
  <1>3. ASSUME EntriesSound, MintKept
        PROVE  EntriesSound'
    <2> SUFFICES ASSUME NEW t \in Task, NEW i \in Filled(t)
                 PROVE  /\ slots[t][i].gen = 1
                        /\ SubsetOf(slots[t][i].right, minted'[slots[t][i].obj])
                        /\ i > Reserved => minted'[slots[t][i].obj] = "Grant"
      BY <1>1 DEF EntriesSound, Sound
    <2>1. slots[t][i] \in Cap
      BY FilledFacts DEF TablesOK
    <2>2. /\ slots[t][i].gen = 1 /\ SubsetOf(slots[t][i].right, minted[slots[t][i].obj])
          /\ i > Reserved => minted[slots[t][i].obj] = "Grant"
      BY <1>3 DEF EntriesSound, Sound
    <2>3. minted'[slots[t][i].obj] = minted[slots[t][i].obj]
      BY <2>1, <2>2, <1>3 DEF MintKept
    <2> QED BY <2>2, <2>3
  <1> QED BY <1>2, <1>3

(***************************************************************************)
(* What the actions that leave the operations in progress alone keep.      *)
(***************************************************************************)
LEMMA OpsFrame ==
    ASSUME op \in [Actor -> Op], UNCHANGED op, OpsSound, MintKept
    PROVE  op' \in [Actor -> Op] /\ OpsSound'
  <1> SUFFICES ASSUME NEW a \in Actor, op[a] # NoOp
               PROVE  /\ op[a].entry.gen = 1
                      /\ SubsetOf(op[a].entry.right, minted'[op[a].entry.obj])
                      /\ op[a].at # "bootstrap" => minted'[op[a].entry.obj] = "Grant"
    BY DEF OpsSound, Sound
  <1>1. op[a].entry \in Cap
    BY OpFields
  <1>2. /\ op[a].entry.gen = 1 /\ SubsetOf(op[a].entry.right, minted[op[a].entry.obj])
        /\ op[a].at # "bootstrap" => minted[op[a].entry.obj] = "Grant"
    BY DEF OpsSound, Sound
  <1>3. minted'[op[a].entry.obj] = minted[op[a].entry.obj]
    BY <1>1, <1>2 DEF MintKept
  <1> QED BY <1>2, <1>3

(***************************************************************************)
(* The unpacked form of CapInv.                                            *)
(***************************************************************************)
LEMMA CapInvParts ==
    /\ CapInv <=> /\ ObjectsOK /\ op \in [Actor -> Op] /\ TablesOK
                  /\ TokensSound /\ EntriesSound /\ OpsSound /\ EpochInv
    /\ CapInv' <=> /\ ObjectsOK' /\ op' \in [Actor -> Op] /\ TablesOK'
                   /\ TokensSound' /\ EntriesSound' /\ OpsSound' /\ EpochInv'
  BY TypeOKParts DEF CapInv

(***************************************************************************)
(* object_table::register.                                                 *)
(***************************************************************************)
LEMMA RegisterStep ==
    ASSUME CapInv, NEW o \in Obj, NEW r \in Right, NEW k \in Kind(r), Register(o, r, k)
    PROVE  CapInv'
  <1>1. /\ ObjectsOK /\ op \in [Actor -> Op] /\ TablesOK
        /\ TokensSound /\ EntriesSound /\ OpsSound /\ EpochInv
    BY CapInvParts
  <1>2. PICK c : c = [obj |-> o, gen |-> 1, right |-> r]
    OBVIOUS
  <1>3. /\ minted[o] = "none" /\ minted' = [minted EXCEPT ![o] = r]
        /\ kind' = [kind EXCEPT ![o] = k] /\ epoch' = [epoch EXCEPT ![o] = 1]
        /\ caps' = caps \cup {c} /\ UNCHANGED revs /\ UNCHANGED alive /\ UNCHANGED born
    BY <1>2 DEF Register
  <1>4. UNCHANGED tabVars /\ UNCHANGED op
    BY DEF Register, tabVars
  <1>5. c \in Cap /\ k \in {"Task", "Other"} /\ 1 \in 0 .. EpochMod - 1
    BY <1>2, CapAssumption DEF Cap, Kind
  <1>6. ObjectsOK'
    BY <1>1, <1>3, <1>5 DEF ObjectsOK
  <1>7. MintKept
    <2> SUFFICES ASSUME NEW d \in Cap, SubsetOf(d.right, minted[d.obj])
                 PROVE  minted'[d.obj] = minted[d.obj]
      BY DEF MintKept
    <2>1. d.right \in Right /\ d.obj \in Obj
      BY DEF Cap
    <2>2. d.obj # o
      BY <2>1, <1>3, Lattice
    <2> QED BY <1>1, <1>3, <2>1, <2>2 DEF ObjectsOK
  <1>8. TokensSound'
    <2>1. c.gen = 1 /\ c.right = r /\ c.obj = o /\ minted'[o] = r
      BY <1>1, <1>2, <1>3 DEF ObjectsOK
    <2>2. Sound(c)'
      BY <2>1 DEF Sound, SubsetOf
    <2>3. \A d \in caps : Sound(d)'
      BY <1>1, <1>7 DEF TokensSound, Sound, MintKept, ObjectsOK
    <2> QED BY <1>3, <2>2, <2>3 DEF TokensSound
  <1>9. EpochInv'
    <2> SUFFICES ASSUME NEW p \in Obj
                 PROVE  IF minted'[p] = "none" THEN revs'[p] = 0
                        ELSE epoch'[p] = (1 + revs'[p]) % EpochMod
      BY DEF EpochInv
    <2>1. CASE p = o
      <3>1. revs'[p] = 0 /\ epoch'[p] = 1 /\ minted'[p] = r
        BY <2>1, <1>1, <1>3 DEF EpochInv, ObjectsOK
      <3>2. 1 + revs'[p] = 1
        BY <3>1
      <3>3. r # "none"
        BY CapAssumption DEF AllRights
      <3> QED BY <3>1, <3>2, <3>3, ModOne
    <2>2. CASE p # o
      <3>1. revs'[p] = revs[p] /\ epoch'[p] = epoch[p] /\ minted'[p] = minted[p]
        BY <2>2, <1>1, <1>3 DEF ObjectsOK
      <3> QED BY <3>1, <1>1 DEF EpochInv
    <2> QED BY <2>1, <2>2
  <1>10. TablesOK' /\ EntriesSound'
    BY <1>1, <1>4, <1>7, TablesFrame
  <1>11. op' \in [Actor -> Op] /\ OpsSound'
    BY <1>1, <1>4, <1>7, OpsFrame
  <1> QED BY <1>6, <1>8, <1>9, <1>10, <1>11, CapInvParts

(***************************************************************************)
(* What is left when the mints and the epochs are unchanged.               *)
(***************************************************************************)
LEMMA MintFrame ==
    ASSUME UNCHANGED minted
    PROVE  /\ MintKept
           /\ EpochInv /\ UNCHANGED <<epoch, revs>> => EpochInv'
           /\ TokensSound /\ UNCHANGED caps => TokensSound'
  BY DEF MintKept, EpochInv, TokensSound, Sound

(***************************************************************************)
(* Cap::revoke: the epoch and the count of revocations move together.      *)
(***************************************************************************)
LEMMA RevokeStep ==
    ASSUME CapInv, NEW c \in caps, Revoke(c)
    PROVE  CapInv'
  <1>1. /\ ObjectsOK /\ op \in [Actor -> Op] /\ TablesOK
        /\ TokensSound /\ EntriesSound /\ OpsSound /\ EpochInv
    BY CapInvParts
  <1>2. PICK o \in Obj : o = c.obj
    BY <1>1 DEF ObjectsOK, Cap
  <1>3. /\ revs[o] < MaxRevs
        /\ epoch' = [epoch EXCEPT ![o] = (epoch[o] + 1) % EpochMod]
        /\ revs' = [revs EXCEPT ![o] = revs[o] + 1]
        /\ UNCHANGED kind /\ UNCHANGED minted /\ UNCHANGED caps /\ UNCHANGED alive /\ UNCHANGED born
    BY <1>2 DEF Revoke
  <1>4. UNCHANGED tabVars /\ UNCHANGED op
    BY DEF Revoke, tabVars
  <1>5. revs[o] \in Nat /\ revs[o] \in 0 .. MaxRevs /\ epoch[o] \in 0 .. EpochMod - 1
        /\ MaxRevs \in Nat /\ EpochMod \in Nat /\ EpochMod > 1
    BY <1>1, CapAssumption DEF ObjectsOK
  <1>6. (epoch[o] + 1) % EpochMod \in 0 .. EpochMod - 1 /\ revs[o] + 1 \in 0 .. MaxRevs
    BY <1>3, <1>5
  <1>7. ObjectsOK'
    BY <1>1, <1>3, <1>6 DEF ObjectsOK
  <1>8. minted[o] # "none"
    <2>1. c.right \in Right /\ SubsetOf(c.right, minted[o])
      BY <1>1, <1>2 DEF ObjectsOK, Cap, TokensSound, Sound
    <2> QED BY <2>1, Lattice
  <1>9. EpochInv'
    <2> SUFFICES ASSUME NEW p \in Obj
                 PROVE  IF minted[p] = "none" THEN revs'[p] = 0
                        ELSE epoch'[p] = (1 + revs'[p]) % EpochMod
      BY <1>3 DEF EpochInv
    <2>1. CASE p = o
      <3>1. epoch[o] = (1 + revs[o]) % EpochMod
        BY <1>1, <1>8 DEF EpochInv
      <3>2. 1 + revs[o] \in Nat /\ (1 + revs[o]) + 1 = 1 + (revs[o] + 1)
        BY <1>5
      <3>3. (epoch[o] + 1) % EpochMod = (1 + (revs[o] + 1)) % EpochMod
        BY <3>1, <3>2, ModBump
      <3>4. epoch'[o] = (epoch[o] + 1) % EpochMod /\ revs'[o] = revs[o] + 1
        BY <1>1, <1>3 DEF ObjectsOK
      <3> QED BY <2>1, <1>8, <3>3, <3>4
    <2>2. CASE p # o
      <3>1. revs'[p] = revs[p] /\ epoch'[p] = epoch[p]
        BY <2>2, <1>1, <1>3 DEF ObjectsOK
      <3> QED BY <3>1, <1>1 DEF EpochInv
    <2> QED BY <2>1, <2>2
  <1>10. MintKept /\ TokensSound'
    BY <1>1, <1>3, MintFrame
  <1>11. TablesOK' /\ EntriesSound'
    BY <1>1, <1>4, <1>10, TablesFrame
  <1>12. op' \in [Actor -> Op] /\ OpsSound'
    BY <1>1, <1>4, <1>10, OpsFrame
  <1> QED BY <1>7, <1>9, <1>10, <1>11, <1>12, CapInvParts

(***************************************************************************)
(* Cap::derive: the new token is no stronger than the first.               *)
(***************************************************************************)
LEMMA DeriveStep ==
    ASSUME CapInv, NEW c \in caps, NEW r \in Right, Derive(c, r)
    PROVE  CapInv'
  <1>1. /\ ObjectsOK /\ op \in [Actor -> Op] /\ TablesOK
        /\ TokensSound /\ EntriesSound /\ OpsSound /\ EpochInv
    BY CapInvParts
  <1>2. PICK d : d = [c EXCEPT !.right = r]
    OBVIOUS
  <1>3. /\ SubsetOf(r, c.right) /\ caps' = caps \cup {d}
        /\ UNCHANGED <<epoch, kind, minted, revs, alive, born>>
    BY <1>2 DEF Derive, objVars
  <1>4. UNCHANGED tabVars /\ UNCHANGED op
    BY DEF Derive, tabVars
  <1>5. c \in Cap /\ d \in Cap /\ d.obj = c.obj /\ d.gen = c.gen /\ d.right = r
    BY <1>1, <1>2 DEF ObjectsOK, Cap
  <1>6. ObjectsOK'
    BY <1>1, <1>3, <1>5 DEF ObjectsOK
  <1>7. MintKept /\ EpochInv'
    BY <1>1, <1>3, MintFrame
  <1>8. TokensSound'
    <2>1. c.gen = 1 /\ SubsetOf(c.right, minted[c.obj])
      BY <1>1 DEF TokensSound, Sound
    <2>2. SubsetOf(r, minted[c.obj])
      BY <2>1, <1>3, Lattice
    <2>3. Sound(d)'
      BY <2>1, <2>2, <1>3, <1>5 DEF Sound
    <2>4. \A e \in caps : Sound(e)'
      BY <1>1, <1>3 DEF TokensSound, Sound
    <2> QED BY <1>3, <2>3, <2>4 DEF TokensSound
  <1>9. TablesOK' /\ EntriesSound'
    BY <1>1, <1>4, <1>7, TablesFrame
  <1>10. op' \in [Actor -> Op] /\ OpsSound'
    BY <1>1, <1>4, <1>7, OpsFrame
  <1> QED BY <1>6, <1>7, <1>8, <1>9, <1>10, CapInvParts

(***************************************************************************)
(* Tasks that come and go.                                                 *)
(***************************************************************************)
LEMMA RegistryStep ==
    ASSUME CapInv, NEW t \in Task, Spawn(t) \/ Exit(t)
    PROVE  CapInv'
  <1>1. /\ ObjectsOK /\ op \in [Actor -> Op] /\ TablesOK
        /\ TokensSound /\ EntriesSound /\ OpsSound /\ EpochInv
    BY CapInvParts
  <1>2. UNCHANGED <<epoch, kind, minted, revs, caps>> /\ UNCHANGED tabVars /\ UNCHANGED op
    BY DEF Spawn, Exit, tabVars, objVars
  <1>3. alive' \subseteq born' /\ born' \subseteq Task
    BY <1>1 DEF ObjectsOK, Spawn, Exit
  <1>4. ObjectsOK'
    BY <1>1, <1>2, <1>3 DEF ObjectsOK
  <1>5. MintKept /\ EpochInv' /\ TokensSound'
    BY <1>1, <1>2, MintFrame
  <1>6. TablesOK' /\ EntriesSound'
    BY <1>1, <1>2, <1>5, TablesFrame
  <1>7. op' \in [Actor -> Op] /\ OpsSound'
    BY <1>1, <1>2, <1>5, OpsFrame
  <1> QED BY <1>4, <1>5, <1>6, <1>7, CapInvParts

\* An operation that may be in progress.
OpSound(o) ==
    o # NoOp => Sound(o.entry) /\ (o.at # "bootstrap" => minted[o.entry.obj] = "Grant")

(***************************************************************************)
(* An actor moves on to a sound operation.                                 *)
(***************************************************************************)
LEMMA BecomeStep ==
    ASSUME CapInv, NEW a \in Actor, NEW o \in Op, OpSound(o), Become(a, o)
    PROVE  CapInv'
  <1>1. /\ ObjectsOK /\ op \in [Actor -> Op] /\ TablesOK
        /\ TokensSound /\ EntriesSound /\ OpsSound /\ EpochInv
    BY CapInvParts
  <1>2. /\ UNCHANGED <<epoch, kind, minted, revs, caps, alive, born>> /\ UNCHANGED tabVars
        /\ op' = [op EXCEPT ![a] = o]
    BY DEF Become, tabVars, objVars
  <1>3. ObjectsOK'
    BY <1>1, <1>2 DEF ObjectsOK
  <1>4. MintKept /\ EpochInv' /\ TokensSound'
    BY <1>1, <1>2, MintFrame
  <1>5. TablesOK' /\ EntriesSound'
    BY <1>1, <1>2, <1>4, TablesFrame
  <1>6. op' \in [Actor -> Op] /\ op'[a] = o /\ \A b \in Actor : b # a => op'[b] = op[b]
    BY <1>1, <1>2
  <1>7. OpsSound'
    <2> SUFFICES ASSUME NEW b \in Actor, op'[b] # NoOp
                 PROVE  /\ op'[b].entry.gen = 1
                        /\ SubsetOf(op'[b].entry.right, minted[op'[b].entry.obj])
                        /\ op'[b].at # "bootstrap" => minted[op'[b].entry.obj] = "Grant"
      BY <1>2 DEF OpsSound, Sound
    <2>1. CASE b = a
      BY <2>1, <1>6 DEF OpSound, Sound
    <2>2. CASE b # a
      BY <2>2, <1>1, <1>6 DEF OpsSound, Sound
    <2> QED BY <2>1, <2>2
  <1> QED BY <1>3, <1>4, <1>5, <1>6, <1>7, CapInvParts

(***************************************************************************)
(* The entries in tables and the tokens have the parts they need.          *)
(***************************************************************************)
LEMMA HeldFacts ==
    ASSUME CapInv
    PROVE  /\ \A c \in caps : c \in Cap /\ Sound(c)
           /\ \A t \in Task : \A i \in 1 .. Len(slots[t]) :
                slots[t][i] # Empty => slots[t][i] \in Cap /\ Sound(slots[t][i])
  <1>1. /\ ObjectsOK /\ TablesOK /\ TokensSound /\ EntriesSound
    BY CapInvParts
  <1>2. \A c \in caps : c \in Cap /\ Sound(c)
    BY <1>1 DEF ObjectsOK, TokensSound
  <1>3. ASSUME NEW t \in Task, NEW i \in 1 .. Len(slots[t]), slots[t][i] # Empty
        PROVE  slots[t][i] \in Cap /\ Sound(slots[t][i])
    <2>1. TableOK(t)
      BY <1>1 DEF TablesOK
    <2>2. i \in Filled(t)
      BY <2>1, <1>3 DEF TableOK
    <2> QED BY <2>1, <2>2, <1>1, FilledFacts DEF EntriesSound
  <1> QED BY <1>2, <1>3

(***************************************************************************)
(* A sound Grant capability is of an object that was minted with Grant.    *)
(***************************************************************************)
LEMMA GrantMinted ==
    ASSUME NEW g, NEW c, Sound(g), Gated(g, c)
    PROVE  minted[c.obj] = "Grant"
  BY Lattice DEF Sound, Gated

(***************************************************************************)
(* The steps of an operation before its install.                           *)
(***************************************************************************)
LEMMA OperationStep ==
    ASSUME CapInv, NEW a \in Actor,
           \/ CheckTyped(a) \/ FindReceiver(a)
           \/ \E t \in Task :
                \/ \E c \in caps : StartBootstrap(a, t, c) \/ \E g \in caps : StartTyped(a, g, c, t)
                \/ \E s \in Task, i, j \in 1 .. MaxSlots : StartTransfer(a, s, t, i, j)
    PROVE  CapInv'
  <1>1. op \in [Actor -> Op] /\ OpsSound /\ op[a] \in Op
    BY CapInvParts
  <1>2. NoOp \in Op /\ OpSound(NoOp)
    BY DEF Op, OpSound
  <1>3. \A t \in Task, c \in Cap, k \in {"check", "find", "bootstrap"} :
            [at |-> k, to |-> t, entry |-> c] \in Op
    BY DEF Op
  <1>4. ASSUME op[a].at \in {"check", "find"}
        PROVE  [op[a] EXCEPT !.at = "install"] \in Op /\ OpSound([op[a] EXCEPT !.at = "install"])
    <2>1. op[a] # NoOp
      BY <1>4 DEF NoOp
    <2>2. op[a] \in [at : {"check", "find", "install", "bootstrap"}, to : Task, entry : Cap]
      BY <1>1, <2>1, OpFields
    <2>3. Sound(op[a].entry) /\ minted[op[a].entry.obj] = "Grant"
      BY <1>1, <1>4, <2>1 DEF OpsSound
    <2>4. /\ [op[a] EXCEPT !.at = "install"] \in Op
          /\ [op[a] EXCEPT !.at = "install"].entry = op[a].entry
      BY <2>2 DEF Op
    <2> QED BY <2>3, <2>4 DEF OpSound
  <1>5. CASE CheckTyped(a)
    <2>1. op[a].at = "check"
      BY <1>5 DEF CheckTyped
    <2>2. \E o \in Op : OpSound(o) /\ Become(a, o)
      BY <1>2, <1>4, <1>5, <2>1 DEF CheckTyped
    <2> QED BY <2>2, BecomeStep
  <1>6. CASE FindReceiver(a)
    <2>1. op[a].at = "find"
      BY <1>6 DEF FindReceiver
    <2>2. \E o \in Op : OpSound(o) /\ Become(a, o)
      BY <1>2, <1>4, <1>6, <2>1 DEF FindReceiver
    <2> QED BY <2>2, BecomeStep
  <1>7. ASSUME NEW t \in Task, NEW c \in Cap, NEW k \in {"check", "find", "bootstrap"},
               Sound(c), k # "bootstrap" => minted[c.obj] = "Grant",
               Start(a, [at |-> k, to |-> t, entry |-> c])
        PROVE  CapInv'
    <2>1. PICK o \in Op : o = [at |-> k, to |-> t, entry |-> c]
      BY <1>3
    <2>2. o.entry = c /\ o.at = k
      BY <2>1
    <2>3. OpSound(o)
      BY <2>2, <1>7 DEF OpSound
    <2>4. Become(a, o)
      BY <2>1, <1>7 DEF Start, Become
    <2> QED BY <2>3, <2>4, BecomeStep
  <1>8. ASSUME NEW t \in Task, NEW c \in caps, StartBootstrap(a, t, c)
        PROVE  CapInv'
    <2>1. c \in Cap /\ Sound(c)
      BY HeldFacts
    <2>2. Start(a, [at |-> "bootstrap", to |-> t, entry |-> c])
      BY <1>8 DEF StartBootstrap
    <2> QED BY <2>1, <2>2, <1>7
  <1>9. ASSUME NEW t \in Task, NEW c \in caps, NEW g \in caps, StartTyped(a, g, c, t)
        PROVE  CapInv'
    <2>1. c \in Cap /\ Sound(c) /\ Sound(g)
      BY HeldFacts
    <2>2. Gated(g, c) /\ Start(a, [at |-> "check", to |-> t, entry |-> c])
      BY <1>9 DEF StartTyped
    <2>3. minted[c.obj] = "Grant"
      BY <2>1, <2>2, GrantMinted
    <2> QED BY <2>1, <2>2, <2>3, <1>7
  <1>10. ASSUME NEW t \in Task, NEW s \in Task, NEW i \in 1 .. MaxSlots, NEW j \in 1 .. MaxSlots,
                StartTransfer(a, s, t, i, j)
         PROVE  CapInv'
    <2>1. PICK g, c : g = slots[s][i] /\ c = slots[s][j]
      OBVIOUS
    <2>2. /\ i \in 1 .. Len(slots[s]) /\ j \in 1 .. Len(slots[s])
          /\ g # Empty /\ c # Empty /\ Gated(g, c)
          /\ Start(a, [at |-> "find", to |-> t, entry |-> c])
      BY <1>10, <2>1 DEF StartTransfer
    <2>3. c \in Cap /\ Sound(c) /\ Sound(g)
      BY <2>1, <2>2, HeldFacts
    <2>4. minted[c.obj] = "Grant"
      BY <2>2, <2>3, GrantMinted
    <2> QED BY <2>2, <2>3, <2>4, <1>7
  <1> QED BY <1>5, <1>6, <1>8, <1>9, <1>10

(***************************************************************************)
(* Both installs: the new entry is the sound one that the actor carried.   *)
(***************************************************************************)
LEMMA InstallStep ==
    ASSUME CapInv, NEW a \in Actor, InstallBootstrap(a) \/ InstallGeneral(a)
    PROVE  CapInv' /\ Installs(a)
  <1>1. /\ ObjectsOK /\ op \in [Actor -> Op] /\ TablesOK
        /\ TokensSound /\ EntriesSound /\ OpsSound /\ EpochInv
    BY CapInvParts
  <1>2. TablesOK' /\ Installs(a)
    BY <1>1, InstallBootstrapEffect, InstallGeneralEffect
  <1>3. /\ UNCHANGED <<epoch, kind, minted, revs, caps, alive, born>>
        /\ op' = [op EXCEPT ![a] = NoOp] /\ op[a].at \in {"bootstrap", "install"}
    BY DEF InstallBootstrap, InstallGeneral, objVars
  <1>4. ObjectsOK'
    BY <1>1, <1>3 DEF ObjectsOK
  <1>5. EpochInv' /\ TokensSound'
    BY <1>1, <1>3, MintFrame
  <1>6. op' \in [Actor -> Op]
    BY <1>1, <1>3 DEF Op
  <1>7. OpsSound'
    BY <1>1, <1>3 DEF OpsSound, Sound
  <1>8. EntriesSound'
    <2> SUFFICES ASSUME NEW t \in Task, NEW i \in Filled(t)'
                 PROVE  /\ slots'[t][i].gen = 1
                        /\ SubsetOf(slots'[t][i].right, minted[slots'[t][i].obj])
                        /\ i > Reserved => minted[slots'[t][i].obj] = "Grant"
      BY <1>3 DEF EntriesSound, Sound
    <2>1. CASE i \in Filled(t)
      <3>1. slots'[t][i] = slots[t][i]
        BY <2>1, <1>2 DEF Installs
      <3> QED BY <3>1, <2>1, <1>1 DEF EntriesSound, Sound
    <2>2. CASE i \notin Filled(t)
      <3>1. slots'[t][i] = op[a].entry /\ (i > Reserved => op[a].at = "install")
        BY <2>2, <1>2 DEF Installs
      <3>2. op[a] # NoOp
        BY <1>3 DEF NoOp
      <3>3. /\ op[a].entry.gen = 1 /\ SubsetOf(op[a].entry.right, minted[op[a].entry.obj])
            /\ op[a].at # "bootstrap" => minted[op[a].entry.obj] = "Grant"
        BY <3>2, <1>1 DEF OpsSound, Sound
      <3> QED BY <3>1, <3>3
    <2> QED BY <2>1, <2>2
  <1> QED BY <1>2, <1>4, <1>5, <1>6, <1>7, <1>8, CapInvParts

\* What every table keeps in a step.
TablesKept ==
    \A t \in Task : \A i \in Filled(t) : i \in Filled(t)' /\ slots'[t][i] = slots[t][i]

(***************************************************************************)
(* Every step keeps CapInv and the entries of the tables.                  *)
(***************************************************************************)
LEMMA Step ==
    ASSUME CapInv, [Next]_vars
    PROVE  CapInv' /\ TablesKept
  <1>0. ASSUME UNCHANGED tabVars
        PROVE  TablesKept
    BY <1>0 DEF TablesKept, tabVars, Filled
  <1>1. ASSUME NEW o \in Obj, NEW r \in Right, NEW k \in Kind(r),
               Bootstrap(o, r, k) \/ \E c \in caps : BootstrapWith(c, o, r, k)
        PROVE  CapInv' /\ TablesKept
    <2>1. Register(o, r, k)
      BY <1>1 DEF Bootstrap, BootstrapWith
    <2>2. UNCHANGED tabVars
      BY <2>1 DEF Register, tabVars
    <2> QED BY <2>1, <2>2, <1>0, RegisterStep
  <1>2. ASSUME NEW c \in caps, Revoke(c)
        PROVE  CapInv' /\ TablesKept
    <2>1. UNCHANGED tabVars
      BY <1>2 DEF Revoke, tabVars
    <2> QED BY <2>1, <1>0, <1>2, RevokeStep
  <1>3. ASSUME NEW c \in caps, NEW r \in Right, Derive(c, r)
        PROVE  CapInv' /\ TablesKept
    <2>1. UNCHANGED tabVars
      BY <1>3 DEF Derive, tabVars
    <2> QED BY <2>1, <1>0, <1>3, DeriveStep
  <1>4. ASSUME NEW t \in Task, Spawn(t) \/ Exit(t)
        PROVE  CapInv' /\ TablesKept
    <2>1. UNCHANGED tabVars
      BY <1>4 DEF Spawn, Exit, tabVars
    <2> QED BY <2>1, <1>0, <1>4, RegistryStep
  <1>5. ASSUME NEW a \in Actor, InstallBootstrap(a) \/ InstallGeneral(a)
        PROVE  CapInv' /\ TablesKept
    <2>1. CapInv' /\ Installs(a)
      BY <1>5, InstallStep
    <2> QED BY <2>1 DEF Installs, TablesKept
  <1>6. ASSUME NEW a \in Actor,
               \/ CheckTyped(a) \/ FindReceiver(a)
               \/ \E t \in Task :
                    \/ \E c \in caps : StartBootstrap(a, t, c) \/ \E g \in caps : StartTyped(a, g, c, t)
                    \/ \E s \in Task, i, j \in 1 .. MaxSlots : StartTransfer(a, s, t, i, j)
        PROVE  CapInv' /\ TablesKept
    <2>1. CapInv'
      BY <1>6, OperationStep
    <2>2. UNCHANGED tabVars
      BY <1>6 DEF CheckTyped, FindReceiver, StartBootstrap, StartTyped, StartTransfer,
                  Become, Start, tabVars
    <2> QED BY <2>1, <2>2, <1>0
  <1>7. CASE UNCHANGED vars
    <2>1. UNCHANGED tabVars
      BY <1>7 DEF vars
    <2>2. \A t \in Task : Filled(t)' = Filled(t)
      BY <2>1 DEF Filled, tabVars
    <2>3. CapInv'
      BY <1>7 DEF CapInv, TypeOK, TokensSound, EntriesSound, OpsSound, EpochInv, Sound, Filled,
                  vars, objVars, tabVars
    <2> QED BY <2>1, <2>3, <1>0
  <1> QED BY <1>1, <1>2, <1>3, <1>4, <1>5, <1>6, <1>7 DEF Next

----------------------------------------------------------------------------
(* The theorems. *)

(***************************************************************************)
(* The inductive invariant holds of every reachable state, whatever the    *)
(* numbers of objects, tasks and actors, the sizes of the tables and the   *)
(* width of the epochs.                                                    *)
(***************************************************************************)
THEOREM Invariance == Spec => []CapInv
  <1>1. CapInv /\ [Next]_vars => CapInv'
    BY Step
  <1> QED BY InitOK, <1>1, PTL DEF Spec

(***************************************************************************)
(* Every variable keeps its type: a table never outgrows MAX_SLOTS, and    *)
(* exactly the slots below its two cursors hold an entry.                  *)
(***************************************************************************)
THEOREM TypeCorrect == Spec => []TypeOK
  <1>1. CapInv => TypeOK
    BY DEF CapInv
  <1> QED BY Invariance, <1>1, PTL

(***************************************************************************)
(* derive, install_bootstrap and transfer never amplify authority.         *)
(***************************************************************************)
THEOREM NoAmplificationHolds == Spec => []NoAmplification
  <1>1. CapInv => NoAmplification
    <2> SUFFICES ASSUME CapInv PROVE NoAmplification
      OBVIOUS
    <2>1. TokensSound /\ EntriesSound /\ TablesOK
      BY CapInvParts
    <2>2. \A t \in Task : nextBootstrap[t] \in Int /\ nextGeneral[t] \in Int /\ Reserved \in Nat
      BY <2>1, CapAssumption DEF TablesOK
    <2>3. \A t \in Task : 1 .. nextBootstrap[t] \subseteq Filled(t)
      BY DEF Filled
    <2>4. \A t \in Task : \A i \in Reserved + 1 .. nextGeneral[t] : i \in Filled(t) /\ i > Reserved
      BY <2>2 DEF Filled
    <2>5. \A c \in caps : SubsetOf(c.right, minted[c.obj])
      BY <2>1 DEF TokensSound, Sound
    <2>6. \A t \in Task : \A c \in Reserve(t) : SubsetOf(c.right, minted[c.obj])
      BY <2>1, <2>3 DEF EntriesSound, Sound, Reserve
    <2>7. \A t \in Task : \A c \in General(t) :
            SubsetOf(c.right, minted[c.obj]) /\ minted[c.obj] = "Grant"
      BY <2>1, <2>4 DEF EntriesSound, Sound, General
    <2> QED BY <2>5, <2>6, <2>7 DEF NoAmplification
  <1> QED BY Invariance, <1>1, PTL

(***************************************************************************)
(* revoke reaches every token and every entry, those on their way into a   *)
(* table included, until the epoch has gone once round its u32.            *)
(***************************************************************************)
THEOREM RevokedUntilWrapHolds == Spec => []RevokedUntilWrap
  <1>1. CapInv => RevokedUntilWrap
    <2> SUFFICES ASSUME CapInv, NEW o \in Obj, revs[o] % EpochMod # 0
                 PROVE  /\ \A c \in caps : c.obj = o => ~Live(c)
                        /\ \A t \in Task : \A c \in Reserve(t) \cup General(t) : c.obj = o => ~Live(c)
      BY DEF RevokedUntilWrap
    <2>1. TokensSound /\ EntriesSound /\ TablesOK /\ EpochInv /\ revs[o] \in Nat
      BY CapInvParts, CapAssumption DEF ObjectsOK
    <2>2. \A c : c.obj = o /\ c.gen = 1 => ~Live(c)
      <3> SUFFICES ASSUME NEW c, c.obj = o, c.gen = 1, Live(c) PROVE FALSE
        OBVIOUS
      <3>1. epoch[o] = 1 /\ minted[o] # "none"
        BY DEF Live
      <3>2. epoch[o] = (1 + revs[o]) % EpochMod
        BY <3>1, <2>1 DEF EpochInv
      <3> QED BY <3>1, <3>2, <2>1, ModOne
    <2>3. \A c \in caps : c.gen = 1
      BY <2>1 DEF TokensSound, Sound
    <2>4. \A t \in Task : \A c \in Reserve(t) \cup General(t) : c.gen = 1
      BY <2>1 DEF EntriesSound, Sound, Reserve, General, Filled
    <2> QED BY <2>2, <2>3, <2>4
  <1> QED BY Invariance, <1>1, PTL

(***************************************************************************)
(* A slot number means the same capability for the life of its table.      *)
(***************************************************************************)
THEOREM SlotsNeverReusedHolds == Spec => SlotsNeverReused
  <1> DEFINE Kept == \A t \in Task : \A i \in 1 .. Len(slots[t]) :
                       slots[t][i] # Empty => i <= Len(slots'[t]) /\ slots'[t][i] = slots[t][i]
  <1>1. CapInv /\ [Next]_vars => [Kept]_vars
    <2> SUFFICES ASSUME CapInv, [Next]_vars,
                        NEW t \in Task, NEW i \in 1 .. Len(slots[t]), slots[t][i] # Empty
                 PROVE  i <= Len(slots'[t]) /\ slots'[t][i] = slots[t][i]
      OBVIOUS
    <2>1. TableOK(t) /\ TableOK(t)' /\ TablesKept
      BY Step, CapInvParts DEF TablesOK
    <2>2. i \in Filled(t)
      BY <2>1 DEF TableOK
    <2>3. i \in Filled(t)' /\ slots'[t][i] = slots[t][i]
      BY <2>1, <2>2 DEF TablesKept
    <2>4. /\ nextBootstrap'[t] \in 0 .. Reserved /\ nextGeneral'[t] \in Reserved .. MaxSlots
          /\ Len(slots'[t]) \in Initial .. MaxSlots /\ nextGeneral'[t] <= Len(slots'[t])
      BY <2>1 DEF TableOK
    <2>5. i <= Len(slots'[t])
      BY <2>3, <2>4, CapAssumption DEF Filled
    <2> QED BY <2>3, <2>5
  <1> QED BY Invariance, <1>1, PTL DEF Spec, SlotsNeverReused

=============================================================================
