--------------------------- MODULE StorageProofs ---------------------------
(***************************************************************************)
(* Opening the Registry, for any number of processes and schema versions:  *)
(* migrations run once and in order, and an open Registry is complete.     *)
(*                                                                         *)
(* What a process found out about a version before its transaction may be  *)
(* stale by then.  StorageInv keeps what cannot become stale: the recorded *)
(* versions are an initial segment that only grows, and a row that holds   *)
(* this build's checksum is never written again.                           *)
(***************************************************************************)
EXTENDS Storage, TLAPS

USE StorageAssumption

AllSideStorage == {SideStorage[i] : i \in 1 .. Len(SideStorage)}
EnsuredBefore(k) == {SideStorage[i] : i \in {m \in 1 .. Len(SideStorage) : m < k}}

\* Versions up to k hold this build's scripts.
OwnUpTo(k) == \A v \in Versions : v <= k => journal[v] = "own"

\* Where initialize is, and what it has already made sure of.
OpenerOK(o) ==
    LET pc == opener[o].pc  at == opener[o].at  seen == opener[o].seen
    IN  /\ pc = "version" => Len(shape) > 0
        /\ pc = "validate" => /\ at \in 1 .. Supported[o] /\ at <= Len(shape)
                              /\ seen <= Len(shape) /\ OwnUpTo(at - 1)
        /\ pc = "apply" => /\ at \in 2 .. Supported[o] /\ at - 1 <= Len(shape)
                           /\ seen <= Len(shape) /\ OwnUpTo(at - 1)
        /\ pc = "ensure" => /\ at \in 1 .. Len(SideStorage) /\ OwnUpTo(Supported[o])
                            /\ EnsuredBefore(at) \subseteq sideTables
        /\ pc = "ready" => OwnUpTo(Supported[o]) /\ AllSideStorage \subseteq sideTables

OpenerRow ==
    [pc : {"closed", "table", "initial", "version", "validate", "apply", "ensure",
           "ready", "refused"},
     seen : 0 .. NewestVersion, at : Int]

\* The scripts that ran are the recorded versions, in order.
Scripts(journalNow, shapeNow) ==
    /\ journalNow \in [Versions -> Checksums \cup {Missing}]
    /\ shapeNow \in Seq(Versions)
    /\ Len(shapeNow) <= NewestVersion
    /\ shapeNow = [v \in 1 .. Len(shapeNow) |-> v]
    /\ \A v \in Versions : journalNow[v] # Missing <=> v <= Len(shapeNow)

StorageInv ==
    /\ Scripts(journal, shape)
    /\ opener \in [Openers -> OpenerRow]
    /\ sideTables \subseteq AllSideStorage
    /\ \A o \in Openers : OpenerOK(o)

\* What a transaction of another process may do meanwhile.
SchemaGrows ==
    /\ Len(shape) <= Len(shape')
    /\ \A v \in Versions : journal[v] = "own" => journal'[v] = "own"
    /\ sideTables \subseteq sideTables'

\* There are five kinds of side storage.
LEMMA SideLength == Len(SideStorage) = 5
BY DEF SideStorage

\* What a process has made sure of survives the transactions of the others.
LEMMA OpenerStays ==
    ASSUME NEW o \in Openers, OpenerOK(o), opener \in [Openers -> OpenerRow],
           opener'[o] = opener[o], SchemaGrows,
           Len(shape) \in Nat, Len(shape') \in Nat
    PROVE  OpenerOK(o)'
<1>1. \A k \in Int : OwnUpTo(k) => OwnUpTo(k)'
  BY DEF OwnUpTo, SchemaGrows, Versions
<1>2. opener[o].at \in Int /\ opener[o].seen \in Int /\ Supported[o] \in Int
  BY DEF OpenerRow
<1> QED BY <1>1, <1>2, SideLength DEF OpenerOK, SchemaGrows, EnsuredBefore, AllSideStorage

\* One migration in one transaction keeps scripts and rows in step.
LEMMA ScriptApplies ==
    ASSUME Scripts(journal, shape), NEW o \in Openers, NEW v \in Versions,
           v <= Len(shape) + 1, journal[v] = Missing, RunScript(o, v)
    PROVE  Scripts(journal', shape') /\ Len(shape') = Len(shape) + 1 /\ v = Len(shape')
           /\ \A w \in Versions : journal[w] = "own" => journal'[w] = "own"
<1>1. v = Len(shape) + 1 /\ Len(shape) \in Nat
  BY DEF Scripts, Versions
<1>2. shape' \in Seq(Versions) /\ Len(shape') = Len(shape) + 1
  BY <1>1 DEF Scripts, RunScript
<1>3. shape' = [w \in 1 .. Len(shape') |-> w]
  BY <1>1, <1>2 DEF Scripts, RunScript
<1>4. /\ journal' \in [Versions -> Checksums \cup {Missing}]
      /\ journal'[v] = "own" /\ \A w \in Versions \ {v} : journal'[w] = journal[w]
  BY DEF Scripts, RunScript, Checksums
<1>5. \A w \in Versions : journal'[w] # Missing <=> w <= Len(shape')
  BY <1>1, <1>2, <1>4 DEF Scripts, Missing, Versions
<1>6. Len(shape') <= NewestVersion
  BY <1>1, <1>2 DEF Versions
<1> QED BY <1>1, <1>2, <1>3, <1>4, <1>5, <1>6 DEF Scripts

\* A step of one process: the others keep what they have, this one has it new.
LEMMA OpenerMoves ==
    ASSUME StorageInv, NEW o \in Openers, NEW row \in OpenerRow,
           opener' = [opener EXCEPT ![o] = row],
           Scripts(journal', shape'), sideTables' \subseteq AllSideStorage, SchemaGrows,
           OpenerOK(o)'
    PROVE  StorageInv'
<1>1. Len(shape) \in Nat /\ Len(shape') \in Nat
  BY DEF StorageInv, Scripts
<1>2. opener' \in [Openers -> OpenerRow] /\ \A u \in Openers \ {o} : opener'[u] = opener[u]
  BY DEF StorageInv
<1>3. \A u \in Openers : OpenerOK(u)'
  BY <1>1, <1>2, OpenerStays DEF StorageInv
<1> QED BY <1>2, <1>3 DEF StorageInv

\* And where it only reads.
LEMMA OpenerReads ==
    ASSUME StorageInv, NEW o \in Openers, NEW row \in OpenerRow,
           opener' = [opener EXCEPT ![o] = row], UNCHANGED <<journal, shape, sideTables>>,
           OpenerOK(o)'
    PROVE  StorageInv'
<1>1. SchemaGrows
  BY DEF SchemaGrows, StorageInv, Scripts
<1> QED BY <1>1, OpenerMoves DEF StorageInv

\* The row a step leaves behind.
LEMMA GoRow ==
    ASSUME opener \in [Openers -> OpenerRow], NEW o \in Openers, NEW pc, NEW at \in Int,
           pc \in {"closed", "table", "initial", "version", "validate", "apply", "ensure",
                   "ready", "refused"},
           Go(o, pc, at)
    PROVE  \E row \in OpenerRow :
              /\ opener' = [opener EXCEPT ![o] = row]
              /\ opener'[o] = row
              /\ row.pc = pc /\ row.at = at /\ row.seen = opener[o].seen
<1> DEFINE row == [opener[o] EXCEPT !.pc = pc, !.at = at]
<1>1. row \in OpenerRow /\ row.pc = pc /\ row.at = at /\ row.seen = opener[o].seen
  BY DEF OpenerRow
<1>2. opener' = [opener EXCEPT ![o] = row]
  BY DEF Go
<1> QED BY <1>1, <1>2

\* A migration, applied or found recorded: its process goes on where the
\* invariant lets it, or refuses.
LEMMA MigrationKeeps ==
    ASSUME StorageInv, NEW o \in Openers, NEW v \in Versions, v <= Len(shape) + 1,
           NEW pc \in {"version", "validate"}, NEW at \in Int, Applies(o, v, pc, at),
           UNCHANGED sideTables,
           pc = "validate" => at = v /\ v \in 1 .. Supported[o] /\ OwnUpTo(v - 1)
                              /\ opener[o].seen <= Len(shape)
    PROVE  StorageInv'
<1>0. Len(shape) \in Nat /\ Scripts(journal, shape) /\ opener \in [Openers -> OpenerRow]
      /\ sideTables' \subseteq AllSideStorage
  BY DEF StorageInv, Scripts
<1>1. CASE journal[v] = Missing
  <2>1. RunScript(o, v) /\ Go(o, pc, at)
    BY <1>1 DEF Applies
  <2>2. Scripts(journal', shape') /\ Len(shape') = Len(shape) + 1 /\ v = Len(shape')
        /\ \A w \in Versions : journal[w] = "own" => journal'[w] = "own"
    BY <1>0, <1>1, <2>1, ScriptApplies
  <2>3. SchemaGrows
    BY <1>0, <2>2 DEF SchemaGrows
  <2>4. PICK row \in OpenerRow :
           /\ opener' = [opener EXCEPT ![o] = row] /\ opener'[o] = row
           /\ row.pc = pc /\ row.at = at /\ row.seen = opener[o].seen
    BY <1>0, <2>1, GoRow
  <2>5. OpenerOK(o)'
    <3>1. CASE pc = "version"
      BY <1>0, <2>2, <2>4, <3>1 DEF OpenerOK
    <3>2. CASE pc = "validate"
      <4>1. OwnUpTo(v - 1)'
        BY <2>2, <3>2 DEF OwnUpTo
      <4>2. opener[o].seen \in Int
        BY <1>0 DEF OpenerRow
      <4> QED BY <1>0, <2>2, <2>4, <3>2, <4>1, <4>2 DEF OpenerOK, Versions
    <3> QED BY <3>1, <3>2
  <2> QED BY <1>0, <2>2, <2>3, <2>4, <2>5, OpenerMoves
<1>2. CASE journal[v] # Missing
  <2>1. Go(o, "refused", 0) /\ UNCHANGED <<journal, shape, sideTables>>
    BY <1>2 DEF Applies, RefuseOpen
  <2>2. PICK row \in OpenerRow :
           opener' = [opener EXCEPT ![o] = row] /\ opener'[o] = row /\ row.pc = "refused"
    BY <1>0, <2>1, GoRow
  <2>3. OpenerOK(o)'
    BY <2>2 DEF OpenerOK
  <2> QED BY <2>1, <2>2, <2>3, OpenerReads
<1> QED BY <1>1, <1>2

\* Every step of every process keeps the invariant.
LEMMA StorageStep == StorageInv /\ [StorageNext]_storageVars => StorageInv'
<1> SUFFICES ASSUME StorageInv, [StorageNext]_storageVars PROVE StorageInv'
  OBVIOUS
<1>0. /\ Len(shape) \in Nat /\ Len(shape) <= NewestVersion
      /\ Scripts(journal, shape) /\ opener \in [Openers -> OpenerRow]
      /\ Recorded = 1 .. Len(shape) /\ NewestVersion \in Nat
  BY DEF StorageInv, Scripts, Recorded, Versions
<1>1. ASSUME NEW o \in Openers, NEW pc, NEW at \in Int, Go(o, pc, at),
             pc \in {"table", "initial", "version", "validate", "apply", "ensure", "refused"},
             UNCHANGED <<journal, shape, sideTables>>,
             pc = "version" => Len(shape) > 0,
             pc = "validate" => /\ at \in 1 .. Supported[o] /\ at <= Len(shape)
                                /\ opener[o].seen <= Len(shape) /\ OwnUpTo(at - 1),
             pc = "apply" => /\ at \in 2 .. Supported[o] /\ at - 1 <= Len(shape)
                             /\ opener[o].seen <= Len(shape) /\ OwnUpTo(at - 1),
             pc = "ensure" => at = 1 /\ OwnUpTo(Supported[o])
      PROVE  StorageInv'
  <2>1. PICK row \in OpenerRow :
           /\ opener' = [opener EXCEPT ![o] = row] /\ opener'[o] = row
           /\ row.pc = pc /\ row.at = at /\ row.seen = opener[o].seen
    BY <1>0, <1>1, GoRow
  <2>2. \A k : OwnUpTo(k) => OwnUpTo(k)'
    BY <1>1 DEF OwnUpTo
  <2>3. EnsuredBefore(1) = {}
    BY SideLength DEF EnsuredBefore
  <2>4. OpenerOK(o)'
    BY <1>1, <2>1, <2>2, <2>3, SideLength DEF OpenerOK
  <2> QED BY <1>1, <2>1, <2>4, OpenerReads
<1>2. CASE UNCHANGED storageVars
  <2>1. SchemaGrows /\ \A o \in Openers : opener'[o] = opener[o]
    BY <1>0, <1>2 DEF SchemaGrows, storageVars
  <2>2. \A o \in Openers : OpenerOK(o)'
    BY <1>0, <1>2, <2>1, OpenerStays DEF StorageInv, storageVars
  <2> QED BY <1>2, <2>2 DEF StorageInv, storageVars
<1>3. ASSUME NEW o \in Openers, OpenConnection(o) PROVE StorageInv'
  BY <1>1, <1>3 DEF OpenConnection
<1>4. ASSUME NEW o \in Openers, InspectTable(o) PROVE StorageInv'
  <2>1. \/ Go(o, "initial", 0)
        \/ Len(shape) > 0 /\ Go(o, "version", 0)
    BY <1>0, <1>4 DEF InspectTable
  <2> QED BY <1>1, <1>4, <2>1 DEF InspectTable
<1>5. ASSUME NEW o \in Openers, InitialMigration(o) PROVE StorageInv'
  <2>1. 1 \in Versions
    BY DEF Versions
  <2> QED BY <1>0, <1>5, <2>1, MigrationKeeps DEF InitialMigration
<1>6. ASSUME NEW o \in Openers, ReadVersion(o) PROVE StorageInv'
  <2>1. Len(shape) > 0
    BY <1>6 DEF ReadVersion, Is, StorageInv, OpenerOK
  <2> DEFINE newest == CHOOSE v \in Recorded : \A w \in Recorded : w <= v
  <2>2. newest \in Recorded
    <3>1. \E v \in Recorded : \A w \in Recorded : w <= v
      BY <1>0, <2>1
    <3> QED BY <3>1
  <2>3. newest \in 1 .. Len(shape)
    BY <1>0, <2>2
  <2>4. PICK n \in 1 .. Len(shape) : n = newest
    BY <2>3
  <2> HIDE DEF newest
  <2>5. CASE n > Supported[o]
    <3> DEFINE row == [opener[o] EXCEPT !.pc = "refused"]
    <3>1. row \in OpenerRow /\ row.pc = "refused"
      BY <1>0 DEF OpenerRow
    <3>2. opener' = [opener EXCEPT ![o] = row]
      BY <1>6, <2>4, <2>5 DEF ReadVersion, newest
    <3>3. OpenerOK(o)'
      BY <1>0, <3>1, <3>2 DEF OpenerOK
    <3> QED BY <1>6, <3>1, <3>2, <3>3, OpenerReads DEF ReadVersion
  <2>6. CASE ~(n > Supported[o])
    <3> DEFINE row == [pc |-> "validate", seen |-> n, at |-> 1]
    <3>1. row \in OpenerRow /\ row.pc = "validate" /\ row.seen = n /\ row.at = 1
      BY <1>0 DEF OpenerRow
    <3>2. opener' = [opener EXCEPT ![o] = row]
      BY <1>6, <2>4, <2>6 DEF ReadVersion, newest
    <3>3. UNCHANGED <<journal, shape, sideTables>>
      BY <1>6 DEF ReadVersion
    <3> HIDE DEF row
    <3>4. opener'[o] = row
      BY <1>0, <3>2
    <3>5. OwnUpTo(0)'
      BY DEF OwnUpTo, Versions
    <3>6. OpenerOK(o)'
      BY <1>0, <2>1, <2>4, <3>1, <3>3, <3>4, <3>5 DEF OpenerOK
    <3> QED BY <3>1, <3>2, <3>3, <3>6, OpenerReads
  <2> QED BY <2>5, <2>6
<1>7. ASSUME NEW o \in Openers, ApplyMigration(o) PROVE StorageInv'
  <2>1. PICK v \in 2 .. Supported[o] : /\ v = opener[o].at /\ v - 1 <= Len(shape)
                                       /\ opener[o].seen <= Len(shape) /\ OwnUpTo(v - 1)
    BY <1>7 DEF ApplyMigration, Is, StorageInv, OpenerOK
  <2>2. v \in Versions /\ v \in 1 .. Supported[o] /\ v <= Len(shape) + 1
    BY <1>0, <2>1 DEF Versions
  <2>3. CASE opener[o].seen < v
    <3>1. Applies(o, v, "validate", v) /\ UNCHANGED sideTables
      BY <1>7, <2>1, <2>3 DEF ApplyMigration
    <3> QED BY <2>1, <2>2, <3>1, MigrationKeeps
  <2>4. CASE ~(opener[o].seen < v)
    <3>1. Go(o, "validate", v) /\ UNCHANGED <<journal, shape, sideTables>>
      BY <1>7, <2>1, <2>4 DEF ApplyMigration
    <3>2. v <= Len(shape)
      BY <1>0, <2>1, <2>4 DEF OpenerRow
    <3> QED BY <1>1, <2>1, <2>2, <3>1, <3>2
  <2> QED BY <2>3, <2>4
<1>8. ASSUME NEW o \in Openers, ValidateChecksum(o) PROVE StorageInv'
  <2>1. PICK v \in 1 .. Supported[o] : /\ v = opener[o].at /\ v <= Len(shape)
                                       /\ opener[o].seen <= Len(shape) /\ OwnUpTo(v - 1)
    BY <1>8 DEF ValidateChecksum, Is, StorageInv, OpenerOK
  <2>2. UNCHANGED <<journal, shape, sideTables>>
    BY <1>8 DEF ValidateChecksum
  <2>3. CASE journal[v] # "own"
    BY <1>1, <1>8, <2>1, <2>2, <2>3 DEF ValidateChecksum, RefuseOpen
  <2>4. CASE journal[v] = "own"
    <3>1. OwnUpTo(v)
      BY <2>1, <2>4 DEF OwnUpTo, Versions
    <3>2. CASE v < Supported[o]
      <4>1. Go(o, "apply", v + 1)
        BY <1>8, <2>1, <2>4, <3>2 DEF ValidateChecksum
      <4>2. v + 1 \in 2 .. Supported[o] /\ v + 1 - 1 = v
        BY <3>2
      <4> QED BY <1>1, <2>1, <2>2, <3>1, <4>1, <4>2
    <3>3. CASE ~(v < Supported[o])
      <4>1. Go(o, "ensure", 1) /\ v = Supported[o]
        BY <1>8, <2>1, <2>4, <3>3 DEF ValidateChecksum
      <4> QED BY <1>1, <2>2, <3>1, <4>1
    <3> QED BY <3>2, <3>3
  <2> QED BY <2>3, <2>4
<1>9. ASSUME NEW o \in Openers, EnsureStorage(o) PROVE StorageInv'
  <2>1. PICK i \in 1 .. Len(SideStorage) : /\ i = opener[o].at /\ OwnUpTo(Supported[o])
                                           /\ EnsuredBefore(i) \subseteq sideTables
    BY <1>9 DEF EnsureStorage, Is, StorageInv, OpenerOK
  <2>2. sideTables' = sideTables \cup {SideStorage[i]} /\ UNCHANGED <<journal, shape>>
    BY <1>9, <2>1 DEF EnsureStorage
  <2>3. EnsuredBefore(i + 1) \subseteq sideTables'
    BY <2>1, <2>2, SideLength DEF EnsuredBefore
  <2>4. OwnUpTo(Supported[o])'
    BY <2>1, <2>2 DEF OwnUpTo
  <2>5. sideTables' \subseteq AllSideStorage /\ SchemaGrows
    BY <1>0, <2>2 DEF StorageInv, AllSideStorage, SchemaGrows
  <2>6. CASE i < Len(SideStorage)
    <3>1. PICK row \in OpenerRow : /\ opener' = [opener EXCEPT ![o] = row] /\ opener'[o] = row
                                   /\ row.pc = "ensure" /\ row.at = i + 1
      <4>1. Go(o, "ensure", i + 1)
        BY <1>9, <2>1, <2>6 DEF EnsureStorage
      <4> QED BY <1>0, <4>1, GoRow
    <3>2. OpenerOK(o)'
      BY <2>3, <2>4, <2>6, <3>1, SideLength DEF OpenerOK
    <3> QED BY <1>0, <2>2, <2>5, <3>1, <3>2, OpenerMoves
  <2>7. CASE ~(i < Len(SideStorage))
    <3>1. PICK row \in OpenerRow : /\ opener' = [opener EXCEPT ![o] = row] /\ opener'[o] = row
                                   /\ row.pc = "ready"
      <4>1. Go(o, "ready", 0)
        BY <1>9, <2>1, <2>7 DEF EnsureStorage
      <4> QED BY <1>0, <4>1, GoRow
    <3>2. AllSideStorage \subseteq sideTables'
      BY <2>3, <2>7, SideLength DEF AllSideStorage, EnsuredBefore
    <3>3. OpenerOK(o)'
      BY <2>4, <3>1, <3>2 DEF OpenerOK, AllSideStorage
    <3> QED BY <1>0, <2>2, <2>5, <3>1, <3>3, OpenerMoves
  <2> QED BY <2>6, <2>7
<1>10. ASSUME NEW o \in Openers, CloseRegistry(o) PROVE StorageInv'
  <2>1. Closed \in OpenerRow /\ Closed.pc = "closed"
    BY DEF Closed, OpenerRow
  <2>2. opener' = [opener EXCEPT ![o] = Closed] /\ UNCHANGED <<journal, shape, sideTables>>
    BY <1>10 DEF CloseRegistry
  <2>3. OpenerOK(o)'
    BY <1>0, <2>1, <2>2 DEF OpenerOK
  <2> QED BY <2>1, <2>2, <2>3, OpenerReads
<1> QED
  BY <1>2, <1>3, <1>4, <1>5, <1>6, <1>7, <1>8, <1>9, <1>10 DEF StorageNext

\* It holds in any installation that was migrated to some version.
LEMMA StorageStart == StorageInit => StorageInv
<1> SUFFICES ASSUME StorageInit PROVE StorageInv
  OBVIOUS
<1>1. PICK n \in 0 .. NewestVersion, top \in Checksums :
         /\ journal = [v \in Versions |-> IF v > n THEN Missing
                                          ELSE IF v = n THEN top ELSE "own"]
         /\ shape = [v \in 1 .. n |-> v]
         /\ sideTables = {} /\ opener = [o \in Openers |-> Closed]
  BY DEF StorageInit
<1>2. n \in Nat /\ 1 .. n \subseteq Versions
  BY <1>1 DEF Versions
<1>3. shape \in Seq(Versions) /\ Len(shape) = n
  BY <1>1, <1>2
<1>4. Scripts(journal, shape)
  <2>1. journal \in [Versions -> Checksums \cup {Missing}]
    BY <1>1 DEF Checksums
  <2>2. \A v \in Versions : journal[v] # Missing <=> v <= n
    BY <1>1, <1>2 DEF Checksums, Missing, Versions
  <2> QED BY <1>1, <1>3, <2>1, <2>2 DEF Scripts
<1>5. Closed \in OpenerRow /\ Closed.pc = "closed"
  BY DEF Closed, OpenerRow
<1>6. opener \in [Openers -> OpenerRow] /\ \A o \in Openers : OpenerOK(o)
  BY <1>1, <1>5 DEF OpenerOK
<1> QED BY <1>1, <1>4, <1>6 DEF StorageInv

\* The invariant of concurrent opens.
THEOREM StorageInvariant == StorageSpec => []StorageInv
BY StorageStart, StorageStep, PTL DEF StorageSpec

\* Type correctness of the journal and of the openers.
THEOREM StorageTyped == StorageSpec => []StorageTypeOK
<1>1. StorageInv => StorageTypeOK
  BY DEF StorageInv, StorageTypeOK, Scripts, OpenerRow
<1> QED BY <1>1, StorageInvariant, PTL

\* However many binaries of whatever versions open the Registry together and
\* die between two transactions, the schema is exact: every script once, in
\* order, and nothing missing from an open Registry.
THEOREM SchemaIsExact == StorageSpec => []SchemaExact
<1>1. ASSUME StorageInv PROVE SchemaExact
  <2>1. Scripts(journal, shape) /\ Len(shape) \in Nat
    BY <1>1 DEF StorageInv, Scripts
  <2>2. Recorded = 1 .. Len(shape)
    BY <2>1 DEF Scripts, Recorded, Versions
  <2>3. shape = [v \in 1 .. Len(shape) |-> v]
    BY <2>1 DEF Scripts
  <2>4. ASSUME NEW o \in Openers, Is(o, "ready")
        PROVE  /\ \A v \in 1 .. Supported[o] : journal[v] = "own"
               /\ sideTables = {SideStorage[i] : i \in 1 .. Len(SideStorage)}
    <3>1. OwnUpTo(Supported[o]) /\ AllSideStorage \subseteq sideTables
      BY <1>1, <2>4 DEF StorageInv, OpenerOK, Is
    <3>2. \A v \in 1 .. Supported[o] : v \in Versions /\ v <= Supported[o]
      BY DEF Versions
    <3> QED BY <1>1, <3>1, <3>2 DEF OwnUpTo, StorageInv, AllSideStorage
  <2> QED BY <2>2, <2>3, <2>4 DEF SchemaExact
<1> QED BY <1>1, StorageInvariant, PTL
=============================================================================
