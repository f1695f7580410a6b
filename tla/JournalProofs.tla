---------------------------- MODULE JournalProofs ----------------------------
(***************************************************************************)
(* What a device keeps over all the lives of its process.                  *)
(*                                                                         *)
(* The journal, for any number of processes and of entries of any size: it *)
(* implements the durable store, on disks that persist the name of a file  *)
(* with its first sync and that may persist sizes before bytes; it leaves  *)
(* files that open accepts, on disks that do not; and the index of a store *)
(* is the committed part of its file, on all of them.  And, at the end,    *)
(* the app's identity and its user's words.                                *)
(***************************************************************************)
EXTENDS Journal, App, FiniteSetTheorems, FunctionTheorems, TLAPS

\* What is on every disk of a set of possible ones, and what is on some.
OnAll(disks) == {e \in Entries : \A c \in disks : e \in Survivors(c)}
OnSome(disks) == {e \in Entries : \E c \in disks : e \in Survivors(c)}

\* A file without its whole header has no records.
WellFormed(c) ==
    /\ DOMAIN c = {"hdr", "recs", "tail", "size"}
    /\ c.recs \in Seq(Entries)
    /\ c.hdr # HeaderSize => c.recs = <<>>

(***************************************************************************)
(* The inductive invariant.  What processes see may be what is on the      *)
(* disk, so nothing is settled that the file does not hold; and a process  *)
(* shows the committed records, among them all that is settled.            *)
(***************************************************************************)
DiskInv ==
    /\ file \in durable
    /\ \A c \in durable : WellFormed(c)

IndexInv ==
    /\ opened \subseteq Procs
    /\ \A p, q \in opened : p = q
    /\ mem \in [Procs -> SUBSET Entries]
    /\ len \in [Procs -> Nat]
    /\ \A p \in Procs \ opened : mem[p] = {}
    /\ \A p \in opened :
          /\ len[p] <= Len(file.recs)
          /\ mem[p] = Range(Committed(p))
          /\ Stored \subseteq mem[p]

JournalInv == FsyncPersistsName /\ DiskInv /\ IndexInv

-----------------------------------------------------------------------------
\* The contents that the journal writes are well formed, and hold their records.
LEMMA Written ==
    ASSUME NEW rs \in Seq(Entries), NEW e, NEW n, NEW m
    PROVE  /\ WellFormed(WithRecords(rs))
           /\ WithRecords(rs).recs = rs
           /\ WellFormed(WithPart(rs, e, n))
           /\ WithPart(rs, e, n).recs = rs
           /\ WellFormed(WithHeader(m))
           /\ WithHeader(m).recs = <<>>
BY DEF WellFormed, WithRecords, WithPart, WithHeader, Empty

\* A file holds entries only.
LEMMA Survive ==
    ASSUME NEW c, WellFormed(c)
    PROVE  Survivors(c) \subseteq Entries
BY DEF Survivors, Range, WellFormed

\* When only one disk is possible, everything is settled.
LEMMA OneDisk ==
    ASSUME NEW c, WellFormed(c)
    PROVE  OnAll({c}) = Survivors(c) /\ OnSome({c}) = Survivors(c)
BY Survive DEF OnAll, OnSome

\* Zeros in place of bytes hold the records of what they follow.
LEMMA UnsyncedHolds ==
    ASSUME NEW base, WellFormed(base), NEW cs, NEW c \in Unsynced(base, cs), c \notin durable, c \notin cs
    PROVE  WellFormed(c) /\ c.recs = base.recs
<1>1. PICK d \in cs : c = Zeroed(base, d)
  BY Zenon DEF Unsynced
<1> QED
  BY <1>1 DEF Zeroed, WellFormed

\* The committed prefix of the records, and one more.
LEMMA Prefix ==
    ASSUME NEW rs \in Seq(Entries), NEW n \in Nat, n <= Len(rs), NEW e \in Entries
    PROVE  LET pre == SubSeq(rs, 1, n)
           IN  /\ pre \in Seq(Entries) /\ Len(pre) = n
               /\ SubSeq(pre, 1, n) = pre
               /\ Range(pre) \subseteq Range(rs)
               /\ Append(pre, e) \in Seq(Entries) /\ Len(Append(pre, e)) = n + 1
               /\ SubSeq(Append(pre, e), 1, n) = pre
               /\ SubSeq(Append(pre, e), 1, n + 1) = Append(pre, e)
               /\ Range(Append(pre, e)) = Range(pre) \cup {e}
<1> DEFINE pre == SubSeq(rs, 1, n)
<1>1. pre \in Seq(Entries) /\ Len(pre) = n /\ \A i \in 1..n : pre[i] = rs[i]
  OBVIOUS
<1>2. Append(pre, e) \in Seq(Entries) /\ Len(Append(pre, e)) = n + 1
      /\ Append(pre, e)[n + 1] = e /\ \A i \in 1..n : Append(pre, e)[i] = pre[i]
  BY <1>1
<1> HIDE DEF pre
<1>3. SubSeq(pre, 1, n) = pre
  BY <1>1
<1>4. SubSeq(Append(pre, e), 1, n) = pre
  BY <1>1, <1>2
<1>5. SubSeq(Append(pre, e), 1, n + 1) = Append(pre, e)
  BY <1>1, <1>2
<1>6. Range(pre) \subseteq Range(rs)
  BY <1>1 DEF Range
<1>7. Range(Append(pre, e)) = Range(pre) \cup {e}
  BY <1>1, <1>2 DEF Range
<1> QED
  BY <1>1, <1>2, <1>3, <1>4, <1>5, <1>6, <1>7 DEF pre

-----------------------------------------------------------------------------
(* The states of DurableStore that the journal's stand for.                *)

\* Nothing is settled that the file does not hold, and what it holds may be.
LEMMA FileHolds ==
    ASSUME DiskInv
    PROVE  Stored \subseteq Range(file.recs) /\ Range(file.recs) \subseteq Stored \cup Limbo
<1>1. file \in AfterPowerLoss /\ WellFormed(file)
  BY DEF DiskInv, AfterPowerLoss
<1> QED
  BY <1>1, Survive DEF Stored, Limbo, Survivors

\* After a sync only what was synced is on the disk, under its name.
LEMMA Synced ==
    ASSUME FsyncPersistsName, NEW c, WellFormed(c), Sync(c)
    PROVE  /\ DiskInv' /\ file' = c
           /\ Stored' = Range(c.recs) /\ Limbo' = {}
<1>1. named'
  BY Zenon DEF Sync
<1>2. file' = c /\ durable' = {c}
  BY DEF Sync
<1>3. AfterPowerLoss' = {c}
  BY <1>1, <1>2 DEF AfterPowerLoss
<1>4. Stored' = OnAll({c}) /\ Limbo' = OnSome({c}) \ OnAll({c})
  BY <1>3 DEF Stored, Limbo, OnAll, OnSome
<1> QED
  BY <1>2, <1>4, OneDisk DEF DiskInv, Survivors

(***************************************************************************)
(* Writing without a sync, the contents cs from base: nothing that all of  *)
(* them hold is unsettled, and only what they hold joins the limbo.        *)
(***************************************************************************)
LEMMA WrittenUnsynced ==
    ASSUME DiskInv, NEW base, WellFormed(base), NEW cs, \A c \in cs : WellFormed(c),
           file' \in cs, durable' = Unsynced(base, cs), UNCHANGED named,
           Stored \subseteq Range(base.recs), \A c \in cs : Stored \subseteq Range(c.recs)
    PROVE  /\ DiskInv' /\ Stored' = Stored /\ Limbo \subseteq Limbo'
           /\ \A e \in Limbo' \ Limbo :
                 e \in Range(base.recs) \/ \E c \in cs : e \in Range(c.recs)
<1>1. durable \subseteq durable' /\ cs \subseteq durable'
  BY DEF Unsynced
<1>2. \A c \in durable' : c \in durable \/ c \in cs \/ (WellFormed(c) /\ c.recs = base.recs)
  BY UnsyncedHolds
<1>3. DiskInv'
  BY <1>1, <1>2 DEF DiskInv
<1>4. AfterPowerLoss \subseteq AfterPowerLoss'
      /\ \A c \in AfterPowerLoss' : c \in AfterPowerLoss \/ c \in cs \/ c.recs = base.recs
  BY <1>1, <1>2 DEF AfterPowerLoss
<1>5. Stored' = Stored
  BY <1>4 DEF Stored, Survivors
<1> QED
  BY <1>3, <1>4, <1>5 DEF Limbo, Survivors

\* The journal before anything was written.
LEMMA InitJournalInv == FsyncPersistsName /\ Init => JournalInv
BY DEF Init, JournalInv, DiskInv, IndexInv, WellFormed, Empty

\* It stands for the empty store.
LEMMA InitImplements == Init => Abstract!Init
BY DEF Init, Abstract!Init, Stored, Limbo, AfterPowerLoss, Survivors, Range, Empty

-----------------------------------------------------------------------------
(* Each step keeps the invariant and is one of DurableStore.               *)

\* An open that has loaded what the file holds.
LEMMA LoadedIndex ==
    ASSUME IndexInv, DiskInv, NEW p \in Procs, Lockable, Loaded(p),
           file'.recs = file.recs, Stored' \subseteq Range(file.recs)
    PROVE  /\ IndexInv'
           /\ opened = {} /\ opened' = {p}
           /\ mem' = [mem EXCEPT ![p] = Range(file.recs)]
<1>1. opened = {} /\ opened' = {p}
  BY DEF Lockable, Loaded
<1>2. /\ mem' = [mem EXCEPT ![p] = Range(file.recs)]
      /\ len' = [len EXCEPT ![p] = Len(file.recs)]
  BY DEF Loaded
<1>3. file.recs \in Seq(Entries) /\ Range(file.recs) \subseteq Entries
  BY DEF DiskInv, WellFormed, Range
<1>4. mem' \in [Procs -> SUBSET Entries] /\ len' \in [Procs -> Nat]
  BY <1>2, <1>3 DEF IndexInv
<1>5. \A q \in Procs \ opened' : mem'[q] = {}
  BY <1>1, <1>2 DEF IndexInv
<1>6. mem'[p] = Range(file.recs) /\ len'[p] = Len(file.recs)
  BY <1>2 DEF IndexInv
<1>7. SubSeq(file.recs, 1, Len(file.recs)) = file.recs
  BY <1>3
<1>8. Committed(p)' = file.recs
  BY <1>6, <1>7 DEF Committed
<1>9. /\ len'[p] <= Len(file'.recs)
      /\ mem'[p] = Range(Committed(p)')
      /\ Stored' \subseteq mem'[p]
  <2>1. Len(file.recs) \in Nat
    BY <1>3
  <2> QED
    BY <1>6, <1>8, <2>1
<1> QED
  BY <1>1, <1>2, <1>4, <1>5, <1>9 DEF IndexInv

\* Journal::open shows what is stored and part of what is in limbo; a header or
\* a cut tail that it syncs settles what it shows.
LEMMA OpenStep ==
    ASSUME JournalInv, NEW p \in Procs, OpenNew(p) \/ OpenExisting(p)
    PROVE  JournalInv' /\ Abstract!Open(p)
<1>1. /\ FsyncPersistsName /\ DiskInv /\ IndexInv
      /\ Lockable /\ Loaded(p)
      /\ WellFormed(file)
  BY DEF JournalInv, OpenNew, OpenExisting, DiskInv
<1>2. /\ DiskInv' /\ file'.recs = file.recs
      /\ \/ Stored' = Stored /\ Limbo' = Limbo
         \/ Stored' = Range(file.recs) /\ Limbo' = {}
  <2>1. CASE OpenNew(p)
    <3>1. file.hdr # HeaderSize
      BY <2>1, JournalAssumption DEF OpenNew
    <3>2. file' = WithHeader(HeaderSize) /\ durable' = {file'} /\ named' = TRUE
      BY <2>1 DEF OpenNew
    <3>3. named' = (named \/ FsyncPersistsName)
      BY <1>1, <3>2, Zenon
    <3>4. file.recs = <<>> /\ Sync(WithHeader(HeaderSize))
      BY <1>1, <3>1, <3>2, <3>3 DEF WellFormed, Sync
    <3>5. WellFormed(WithHeader(HeaderSize)) /\ WithHeader(HeaderSize).recs = <<>>
      BY DEF WellFormed, WithHeader, Empty
    <3> QED
      BY <1>1, <3>4, <3>5, Synced
  <2>2. CASE OpenExisting(p) /\ UNCHANGED <<file, durable, named>>
    BY <1>1, <2>2 DEF DiskInv, Stored, Limbo, AfterPowerLoss
  <2>3. CASE OpenExisting(p) /\ Sync(WithRecords(file.recs))
    <3>1. WellFormed(WithRecords(file.recs)) /\ WithRecords(file.recs).recs = file.recs
      BY <1>1, Written, Zenon DEF WellFormed
    <3> QED
      BY <1>1, <2>3, <3>1, Synced
  <2> QED
    BY <2>1, <2>2, <2>3 DEF OpenExisting
<1>3. Stored \subseteq Range(file.recs) /\ Range(file.recs) \subseteq Stored \cup Limbo
  BY <1>1, FileHolds
<1>4. IndexInv' /\ opened = {} /\ opened' = {p} /\ mem' = [mem EXCEPT ![p] = Range(file.recs)]
  BY <1>1, <1>2, <1>3, LoadedIndex
<1>5. mem'[p] = Range(file.recs)
  BY <1>1, <1>4 DEF IndexInv
<1>6. \E shown \in SUBSET Limbo : mem' = [mem EXCEPT ![p] = Stored \cup shown]
  <2>1. Range(file.recs) = Stored \cup (Range(file.recs) \ Stored)
    BY <1>3
  <2>2. Range(file.recs) \ Stored \in SUBSET Limbo
    BY <1>3
  <2> QED
    BY <1>4, <2>1, <2>2, Zenon
<1> QED
  BY <1>1, <1>2, <1>4, <1>5, <1>6, Zenon DEF JournalInv, Abstract!Open

\* A failed open leaves nothing open and settles nothing, unless it synced the
\* header of a file that has no records yet.
LEMMA OpenFailsStep ==
    ASSUME JournalInv, OpenFails
    PROVE  JournalInv' /\ (UNCHANGED Abstract!vars \/ Abstract!PowerLoss)
<1>1. /\ FsyncPersistsName /\ DiskInv /\ IndexInv
      /\ opened = {} /\ UNCHANGED <<opened, mem, len>>
      /\ WellFormed(file)
  BY DEF JournalInv, OpenFails, Lockable, DiskInv
<1>2. IndexInv' /\ mem' = [p \in Procs |-> {}]
  BY <1>1 DEF IndexInv
<1>3. Stored \subseteq Range(file.recs) /\ Range(file.recs) \subseteq Stored \cup Limbo
  BY <1>1, FileHolds
<1>4. ASSUME file' = WithRecords(file.recs), UNCHANGED named,
             durable' = Unsynced(file', {file'})
      PROVE  JournalInv' /\ UNCHANGED Abstract!vars
  <2>1. WellFormed(file') /\ file'.recs = file.recs
    BY <1>1, <1>4, Written, ZenonT(40) DEF WellFormed
  <2>2. /\ DiskInv' /\ Stored' = Stored /\ Limbo \subseteq Limbo'
        /\ \A e \in Limbo' \ Limbo : e \in Range(file.recs)
    BY <1>1, <1>3, <1>4, <2>1, WrittenUnsynced
  <2>3. Limbo' = Limbo
    BY <1>3, <2>2 DEF Limbo
  <2> QED
    BY <1>1, <1>2, <2>2, <2>3, ZenonT(40) DEF JournalInv, Abstract!vars
<1>5. CASE file.hdr < HeaderSize
  <2>1. file.recs = <<>>
    BY <1>1, <1>5, JournalAssumption DEF WellFormed
  <2>2. Range(file.recs) = {} /\ Stored = {}
    BY <1>3, <2>1 DEF Range
  <2>3. \A n : WellFormed(WithHeader(n)) /\ WithHeader(n).recs = <<>>
    BY DEF WellFormed, WithHeader, Empty
  <2>4. CASE Sync(WithHeader(HeaderSize))
    <3>1. DiskInv' /\ Stored' = {} /\ Limbo' = {}
      BY <1>1, <2>1, <2>2, <2>3, <2>4, Synced, ZenonT(40)
    <3>2. \E kept \in SUBSET Limbo : Stored' = Stored \cup kept
      BY <2>2, <3>1
    <3> QED
      BY <1>1, <1>2, <3>1, <3>2, ZenonT(40) DEF JournalInv, Abstract!PowerLoss
  <2>5. ASSUME NEW n \in file.hdr..HeaderSize,
               file' = WithHeader(n), UNCHANGED named,
               durable' = Unsynced(file, {WithHeader(k) : k \in file.hdr..n})
        PROVE  JournalInv' /\ UNCHANGED Abstract!vars
    <3> DEFINE cs == {WithHeader(k) : k \in file.hdr..n}
    <3>1. file' \in cs /\ durable' = Unsynced(file, cs)
      BY <2>5
    <3>2. \A c \in cs : WellFormed(c) /\ c.recs = <<>>
      BY <2>3
    <3> HIDE DEF cs
    <3>3. DiskInv' /\ Stored' = Stored /\ Limbo' = Limbo
      BY <1>1, <2>1, <2>2, <2>5, <3>1, <3>2, WrittenUnsynced, Zenon
    <3> QED
      BY <1>1, <1>2, <3>3 DEF JournalInv, Abstract!vars
  <2>6. CASE /\ file' = WithRecords(file.recs)
             /\ durable' = Unsynced(file', {file'})
             /\ UNCHANGED named
    BY <1>4, <2>6
  <2> QED
    BY <1>5, <2>4, <2>5, <2>6, Zenon DEF OpenFails
<1> QED
  BY <1>5, <1>4 DEF OpenFails

\* An open store has its committed records in the file, and one more fits on.
LEMMA CommittedRecords ==
    ASSUME JournalInv, NEW p \in opened, NEW e \in Entries
    PROVE  /\ p \in Procs /\ opened = {p}
           /\ mem[p] = Range(Committed(p)) /\ mem[p] \subseteq Range(file.recs)
           /\ Committed(p) \in Seq(Entries) /\ len[p] \in Nat /\ Len(Committed(p)) = len[p]
           /\ SubSeq(Committed(p), 1, len[p]) = Committed(p)
           /\ LET rs == Append(Committed(p), e)
              IN  /\ rs \in Seq(Entries) /\ Len(rs) = len[p] + 1
                  /\ SubSeq(rs, 1, len[p]) = Committed(p)
                  /\ SubSeq(rs, 1, len[p] + 1) = rs
                  /\ Range(rs) = mem[p] \cup {e}
<1>1. p \in Procs /\ opened = {p} /\ mem[p] = Range(Committed(p))
  BY DEF JournalInv, IndexInv
<1>2. file.recs \in Seq(Entries) /\ len[p] \in Nat /\ len[p] <= Len(file.recs)
  BY <1>1 DEF JournalInv, IndexInv, DiskInv, WellFormed
<1> DEFINE pre == SubSeq(file.recs, 1, len[p])
           rs  == Append(pre, e)
<1>3. Committed(p) = pre
  BY DEF Committed
<1>4. /\ pre \in Seq(Entries) /\ Len(pre) = len[p] /\ SubSeq(pre, 1, len[p]) = pre
      /\ Range(pre) \subseteq Range(file.recs)
      /\ rs \in Seq(Entries) /\ Len(rs) = len[p] + 1
      /\ SubSeq(rs, 1, len[p]) = pre /\ SubSeq(rs, 1, len[p] + 1) = rs
      /\ Range(rs) = Range(pre) \cup {e}
  <2> HIDE DEF pre, rs
  <2> QED
    BY <1>2, Prefix, ZenonT(40) DEF pre, rs
<1>5. rs = Append(Committed(p), e)
  BY <1>3
<1> HIDE DEF pre, rs
<1> QED
  BY <1>1, <1>2, <1>3, <1>4, <1>5, ZenonT(40)

\* Journal::append, synced: what the process shows is what is on the disk.
LEMMA InsertStep ==
    ASSUME JournalInv, NEW p \in Procs, NEW e \in Entries, Insert(p, e)
    PROVE  JournalInv' /\ Abstract!Insert(p, e)
<1> DEFINE rs == Append(Committed(p), e)
<1>1. /\ FsyncPersistsName /\ IndexInv
      /\ p \in opened /\ e \notin mem[p] /\ UNCHANGED opened
      /\ Sync(WithRecords(rs))
      /\ mem' = [mem EXCEPT ![p] = @ \cup {e}]
      /\ len' = [len EXCEPT ![p] = @ + 1]
  BY DEF JournalInv, Insert
<1>2. /\ opened = {p} /\ len[p] \in Nat
      /\ rs \in Seq(Entries) /\ Len(rs) = len[p] + 1
      /\ SubSeq(rs, 1, len[p] + 1) = rs
      /\ Range(rs) = mem[p] \cup {e}
  BY <1>1, CommittedRecords, ZenonT(40)
<1> HIDE DEF rs
<1>3. WellFormed(WithRecords(rs)) /\ WithRecords(rs).recs = rs
  BY <1>2, Written, Zenon
<1>4. DiskInv' /\ file'.recs = rs /\ Stored' = Range(rs) /\ Limbo' = {}
  BY <1>1, <1>3, Synced
<1>5. mem'[p] = Range(rs) /\ len'[p] = len[p] + 1
  BY <1>1, <1>2 DEF IndexInv
<1>6. mem' \in [Procs -> SUBSET Entries] /\ len' \in [Procs -> Nat]
  BY <1>1, <1>2 DEF IndexInv
<1>7. \A q \in Procs \ opened' : mem'[q] = {}
  BY <1>1, <1>2, Zenon DEF IndexInv
<1>8. Committed(p)' = rs
  BY <1>2, <1>4, <1>5, ZenonT(40) DEF Committed
<1>9. /\ len'[p] <= Len(file'.recs)
      /\ mem'[p] = Range(Committed(p)')
      /\ Stored' \subseteq mem'[p]
  BY <1>2, <1>4, <1>5, <1>8
<1>10. IndexInv'
  BY <1>1, <1>2, <1>6, <1>7, <1>9, ZenonT(40) DEF IndexInv
<1> QED
  BY <1>1, <1>4, <1>5, <1>10 DEF JournalInv, Abstract!Insert

\* Whatever a failed append leaves begins with the committed records.
LEMMA InsertFailsStep ==
    ASSUME JournalInv, NEW p \in Procs, NEW e \in Entries, InsertFails(p, e)
    PROVE  JournalInv' /\ Abstract!InsertFails(p, e)
<1> DEFINE pre == Committed(p)
           rs  == Append(pre, e)
           partial(n) == WithPart(pre, e, n)
<1>1. /\ FsyncPersistsName /\ DiskInv /\ IndexInv
      /\ p \in opened /\ e \notin mem[p] /\ UNCHANGED <<named, opened, mem, len>>
  BY DEF JournalInv, InsertFails
<1>2. /\ opened = {p} /\ len[p] \in Nat
      /\ mem[p] = Range(pre) /\ mem[p] \subseteq Range(file.recs)
      /\ pre \in Seq(Entries) /\ Len(pre) = len[p] /\ SubSeq(pre, 1, len[p]) = pre
      /\ rs \in Seq(Entries) /\ Len(rs) = len[p] + 1
      /\ SubSeq(rs, 1, len[p]) = pre
      /\ Range(rs) = mem[p] \cup {e}
  BY <1>1, CommittedRecords
<1>3. PICK cs :
        /\ file' \in cs /\ durable' = Unsynced(partial(0), cs)
        /\ \A c \in cs : c = WithRecords(rs) \/ \E n \in Nat : c = partial(n)
  <2>1. RecordSize(e) \in Nat
    BY JournalAssumption DEF RecordSize
  <2>2. ASSUME NEW n \in 0..RecordSize(e) - 1, file' = partial(n),
               durable' = Unsynced(partial(0), {partial(k) : k \in 0..n})
        PROVE  \E cs :
                 /\ file' \in cs /\ durable' = Unsynced(partial(0), cs)
                 /\ \A c \in cs : c = WithRecords(rs) \/ \E m \in Nat : c = partial(m)
    <3> HIDE DEF partial, rs
    <3>1. file' \in {partial(k) : k \in 0..n}
      BY <2>1, <2>2
    <3>2. \A c \in {partial(k) : k \in 0..n} : \E m \in Nat : c = partial(m)
      BY <2>1
    <3> QED
      BY <2>2, <3>1, <3>2, Zenon
  <2>3. ASSUME file' = WithRecords(rs),
               durable' = Unsynced(partial(0), {partial(k) : k \in 0..RecordSize(e) - 1} \cup {WithRecords(rs)})
        PROVE  \E cs :
                 /\ file' \in cs /\ durable' = Unsynced(partial(0), cs)
                 /\ \A c \in cs : c = WithRecords(rs) \/ \E m \in Nat : c = partial(m)
    <3> HIDE DEF partial, rs
    <3> DEFINE cs == {partial(k) : k \in 0..RecordSize(e) - 1} \cup {WithRecords(rs)}
    <3>1. file' \in cs /\ durable' = Unsynced(partial(0), cs)
      BY <2>3
    <3>2. \A c \in cs : c = WithRecords(rs) \/ \E m \in Nat : c = partial(m)
      BY <2>1
    <3> QED
      BY <3>1, <3>2, Zenon
  <2> QED
    BY <2>2, <2>3, Zenon DEF InsertFails
<1>4. /\ WellFormed(WithRecords(rs)) /\ WithRecords(rs).recs = rs
      /\ \A n : WellFormed(partial(n)) /\ partial(n).recs = pre
  <2>1. WellFormed(WithRecords(rs)) /\ WithRecords(rs).recs = rs
    <3> HIDE DEF rs
    <3> QED
      BY <1>2, Written, Zenon
  <2>2. ASSUME NEW n PROVE WellFormed(partial(n)) /\ partial(n).recs = pre
    <3> HIDE DEF pre
    <3>1. pre \in Seq(Entries)
      BY <1>2
    <3>2. WellFormed(WithPart(pre, e, n)) /\ WithPart(pre, e, n).recs = pre
      BY <3>1, Written
    <3> QED
      BY <3>2
  <2> QED
    BY <2>1, <2>2, Zenon
<1> HIDE DEF pre, rs, partial
<1>5. \A c \in cs : WellFormed(c) /\ (c.recs = pre \/ c.recs = rs)
  BY <1>3, <1>4
<1>6. Stored \subseteq mem[p]
  BY <1>1, Zenon DEF IndexInv
<1>7. /\ DiskInv' /\ Stored' = Stored
      /\ \A x \in Limbo' \ Limbo : x \in mem[p] \/ x = e
  <2>1. Stored \subseteq Range(partial(0).recs) /\ \A c \in cs : Stored \subseteq Range(c.recs)
    BY <1>2, <1>4, <1>5, <1>6, Zenon
  <2>2. /\ DiskInv' /\ Stored' = Stored
        /\ \A x \in Limbo' \ Limbo : x \in Range(partial(0).recs) \/ \E c \in cs : x \in Range(c.recs)
    BY <1>1, <1>3, <1>4, <1>5, <2>1, WrittenUnsynced, ZenonT(40)
  <2> QED
    BY <1>2, <1>4, <1>5, <2>2, ZenonT(40)
<1>8. Limbo' \subseteq Limbo \cup {e}
  <2>1. mem[p] \subseteq Stored \cup Limbo
    BY <1>1, <1>2, FileHolds, ZenonT(40)
  <2> QED
    BY <1>7, <2>1, Zenon DEF Limbo
<1>9. /\ len[p] <= Len(file'.recs)
      /\ SubSeq(file'.recs, 1, len[p]) = pre
  BY <1>2, <1>3, <1>5
<1>10. Committed(p)' = pre
  BY <1>1, <1>9 DEF Committed
<1>11. IndexInv'
  BY <1>1, <1>2, <1>6, <1>7, <1>9, <1>10, ZenonT(40) DEF IndexInv
<1> QED
  BY <1>1, <1>7, <1>8, <1>11 DEF JournalInv, Abstract!InsertFails

\* The end of a process leaves the file as it is.
LEMMA KillStep ==
    ASSUME JournalInv, NEW p \in Procs, Kill(p)
    PROVE  JournalInv' /\ Abstract!Close(p)
<1>1. /\ p \in opened /\ opened' = opened \ {p}
      /\ mem' = [mem EXCEPT ![p] = {}] /\ len' = [len EXCEPT ![p] = 0]
      /\ UNCHANGED <<file, durable, named>>
  BY DEF Kill
<1>2. DiskInv' /\ Stored' = Stored /\ Limbo' = Limbo
  BY <1>1 DEF JournalInv, DiskInv, Stored, Limbo, AfterPowerLoss
<1>3. opened' = {}
  BY <1>1 DEF JournalInv, IndexInv
<1>4. IndexInv'
  BY <1>1, <1>3 DEF JournalInv, IndexInv
<1> QED
  BY <1>1, <1>2, <1>4 DEF JournalInv, Abstract!Close

\* A loss of power leaves one of the possible disks.
LEMMA PowerLossStep ==
    ASSUME JournalInv, PowerLoss
    PROVE  JournalInv' /\ Abstract!PowerLoss
<1>1. /\ file' \in AfterPowerLoss /\ durable' = {file'}
      /\ opened' = {} /\ mem' = [p \in Procs |-> {}] /\ len' = [p \in Procs |-> 0]
  BY DEF PowerLoss
<1>2. named' \/ file' = Empty
  BY Zenon DEF PowerLoss
<1>3. AfterPowerLoss' = {file'}
  BY <1>1, <1>2 DEF AfterPowerLoss
<1>4. WellFormed(file')
  <2>1. WellFormed(Empty)
    BY DEF WellFormed, Empty
  <2> QED
    BY <1>1, <2>1 DEF JournalInv, DiskInv, AfterPowerLoss
<1>5. DiskInv' /\ IndexInv'
  BY <1>1, <1>4 DEF DiskInv, IndexInv
<1>6. Stored' = Survivors(file') /\ Limbo' = {}
  <2>1. Stored' = OnAll({file'}) /\ Limbo' = OnSome({file'}) \ OnAll({file'})
    BY <1>3 DEF Stored, Limbo, OnAll, OnSome
  <2> QED
    BY <1>4, <2>1, OneDisk
<1>7. Stored \subseteq Survivors(file') /\ Survivors(file') \subseteq Stored \cup Limbo
  BY <1>1, <1>4, Survive DEF Stored, Limbo
<1>8. \E kept \in SUBSET Limbo : Stored' = Stored \cup kept
  <2>1. Survivors(file') \ Stored \in SUBSET Limbo
    BY <1>7
  <2> QED
    BY <1>6, <1>7, <2>1, Zenon
<1> QED
  BY <1>1, <1>5, <1>6, <1>8 DEF JournalInv, Abstract!PowerLoss

\* A step that changes nothing of the journal changes nothing of the store.
LEMMA Stutter ==
    ASSUME JournalInv, UNCHANGED vars
    PROVE  JournalInv' /\ UNCHANGED Abstract!vars
<1>1. DiskInv' /\ Stored' = Stored /\ Limbo' = Limbo
  BY DEF vars, JournalInv, DiskInv, Stored, Limbo, AfterPowerLoss
<1>2. IndexInv'
  BY <1>1 DEF vars, JournalInv, IndexInv, Committed
<1> QED
  BY <1>1, <1>2 DEF vars, JournalInv, Abstract!vars

-----------------------------------------------------------------------------
(***************************************************************************)
(* Every behaviour of the journal is one of DurableStore, where a sync     *)
(* also persists the name of the file: an entry whose append was           *)
(* acknowledged is shown by every store opened from then on, whichever     *)
(* appends, opens and syncs fail, and whenever the process or the power    *)
(* goes (Journal::open, Journal::append, EntryStore::insert).              *)
(***************************************************************************)
THEOREM JournalKeepsPromise == FsyncPersistsName /\ Spec => KeepsPromise
<1>1. ASSUME JournalInv, [Next]_vars
      PROVE  JournalInv' /\ [Abstract!Next]_(Abstract!vars)
  <2>1. ASSUME NEW p \in Procs, OpenNew(p) \/ OpenExisting(p)
        PROVE  JournalInv' /\ [Abstract!Next]_(Abstract!vars)
    BY <1>1, <2>1, OpenStep DEF Abstract!Next
  <2>2. ASSUME NEW p \in Procs, NEW e \in Entries, Insert(p, e)
        PROVE  JournalInv' /\ [Abstract!Next]_(Abstract!vars)
    BY <1>1, <2>2, InsertStep DEF Abstract!Next
  <2>3. ASSUME NEW p \in Procs, NEW e \in Entries, InsertFails(p, e)
        PROVE  JournalInv' /\ [Abstract!Next]_(Abstract!vars)
    BY <1>1, <2>3, InsertFailsStep DEF Abstract!Next
  <2>4. ASSUME NEW p \in Procs, Kill(p)
        PROVE  JournalInv' /\ [Abstract!Next]_(Abstract!vars)
    BY <1>1, <2>4, KillStep DEF Abstract!Next
  <2>5. CASE OpenFails
    BY <1>1, <2>5, OpenFailsStep DEF Abstract!Next
  <2>6. CASE PowerLoss
    BY <1>1, <2>6, PowerLossStep DEF Abstract!Next
  <2>7. CASE UNCHANGED vars
    BY <1>1, <2>7, Stutter
  <2> QED
    BY <1>1, <2>1, <2>2, <2>3, <2>4, <2>5, <2>6, <2>7, ZenonT(40) DEF Next
<1> QED
  BY <1>1, InitJournalInv, InitImplements, PTL DEF Spec, KeepsPromise, Abstract!Spec

-----------------------------------------------------------------------------
(***************************************************************************)
(* The size of a file.  The ends of its records are a recursive function,  *)
(* which exists, and is the only one, because there is no first record at  *)
(* which it would not.                                                     *)
(***************************************************************************)

\* A set of numbers has a least one.
LEMMA Least ==
    ASSUME NEW S \in SUBSET Nat, S # {}
    PROVE  \E m \in S : \A n \in S : m <= n
<1>1. PICK m \in S : \A n \in S : ~ (<<n, m>> \in OpToRel(<, Nat))
  BY NatLessThanWellFounded, WFMin, Zenon
<1>2. \A n \in S : ~ (n < m)
  BY <1>1, Zenon DEF OpToRel
<1> QED
  BY <1>2

\* f gives the ends of the first k records.
AreEnds(f, rs, k) ==
    f = [n \in 0..k |-> IF n = 0 THEN 0 ELSE f[n - 1] + RecordSize(rs[n])]

LEMMA EndsExist ==
    ASSUME NEW rs \in Seq(Entries)
    PROVE  \E f \in [0..Len(rs) -> Nat] : AreEnds(f, rs, Len(rs))
<1> DEFINE Has(k) == \E f \in [0..k -> Nat] : AreEnds(f, rs, k)
           Lacks == {k \in 0..Len(rs) : ~Has(k)}
<1>1. Len(rs) \in Nat /\ Len(rs) \in 0..Len(rs)
  OBVIOUS
<1>2. Has(0)
  <2>1. AreEnds([n \in 0..0 |-> 0], rs, 0)
    BY DEF AreEnds
  <2> QED
    BY <2>1
<1>3. ASSUME NEW m \in 1..Len(rs), Has(m - 1)
      PROVE  Has(m)
  <2>1. PICK f \in [0..m - 1 -> Nat] : AreEnds(f, rs, m - 1)
    BY <1>3, ZenonT(40)
  <2> DEFINE g == [n \in 0..m |-> IF n = m THEN f[m - 1] + RecordSize(rs[m]) ELSE f[n]]
  <2>2. RecordSize(rs[m]) \in Nat /\ m \in Nat /\ m > 0
    BY <1>1, JournalAssumption DEF RecordSize
  <2>3. f[m - 1] \in Nat
    BY <2>2
  <2>4. g \in [0..m -> Nat]
    BY <2>2, <2>3
  <2>5. \A n \in 0..m : g[n] = IF n = 0 THEN 0 ELSE g[n - 1] + RecordSize(rs[n])
    <3>1. \A n \in 0..m - 1 : f[n] = IF n = 0 THEN 0 ELSE f[n - 1] + RecordSize(rs[n])
      BY <2>1 DEF AreEnds
    <3> QED
      BY <2>2, <3>1
  <2>6. AreEnds(g, rs, m)
    <3> HIDE DEF g
    <3> QED
      BY <2>4, <2>5 DEF AreEnds
  <2> QED
    BY <2>4, <2>6, Zenon
<1> HIDE DEF Has
<1>4. SUFFICES ASSUME Lacks # {} PROVE FALSE
  BY <1>1 DEF Has
<1>5. Lacks \in SUBSET Nat
  BY <1>1
<1>6. PICK m \in Lacks : \A n \in Lacks : m <= n
  BY <1>4, <1>5, Least, Zenon
<1>7. m # 0
  BY <1>2, <1>6
<1>8. m \in 1..Len(rs) /\ m - 1 \in 0..Len(rs) /\ m - 1 \notin Lacks
  BY <1>1, <1>6, <1>7
<1> QED
  BY <1>3, <1>6, <1>8, ZenonT(40)

\* Sequences that agree have their records end at the same places.
LEMMA EndsAgree ==
    ASSUME NEW k \in Nat, NEW f, NEW g, NEW rs, NEW ss,
           AreEnds(f, rs, k), AreEnds(g, ss, k), \A n \in 1..k : rs[n] = ss[n]
    PROVE  f = g
<1> DEFINE Differ == {n \in 0..k : f[n] # g[n]}
<1>1. /\ \A n \in 0..k : f[n] = IF n = 0 THEN 0 ELSE f[n - 1] + RecordSize(rs[n])
      /\ \A n \in 0..k : g[n] = IF n = 0 THEN 0 ELSE g[n - 1] + RecordSize(ss[n])
  BY DEF AreEnds
<1>2. SUFFICES ASSUME Differ # {} PROVE FALSE
  <2>1. \E F : f = [n \in 0..k |-> F[n]]
    BY <1>1, Zenon DEF AreEnds
  <2>2. \E G : g = [n \in 0..k |-> G[n]]
    BY <1>1, Zenon DEF AreEnds
  <2> QED
    BY <2>1, <2>2, Zenon
<1>3. Differ \in SUBSET Nat
  OBVIOUS
<1>4. PICK m \in Differ : \A n \in Differ : m <= n
  BY <1>2, <1>3, Least, Zenon
<1>5. m \in 0..k /\ m # 0
  BY <1>1, <1>4
<1>6. m - 1 \in 0..k /\ m - 1 \notin Differ
  BY <1>4, <1>5
<1> QED
  BY <1>1, <1>4, <1>5, <1>6

LEMMA EndsAre ==
    ASSUME NEW rs \in Seq(Entries)
    PROVE  Ends(rs) \in [0..Len(rs) -> Nat] /\ AreEnds(Ends(rs), rs, Len(rs))
<1>1. PICK f \in [0..Len(rs) -> Nat] : AreEnds(f, rs, Len(rs))
  BY EndsExist
<1>2. Ends(rs) = CHOOSE g : AreEnds(g, rs, Len(rs))
  BY DEF Ends, AreEnds
<1>3. AreEnds(Ends(rs), rs, Len(rs))
  BY <1>1, <1>2
<1>4. Len(rs) \in Nat
  OBVIOUS
<1>5. Ends(rs) = f
  BY <1>1, <1>3, <1>4, EndsAgree
<1> QED
  BY <1>1, <1>3, <1>5

\* What the records of a file take: of no record, and of one more.
Total(rs) == Ends(rs)[Len(rs)]

LEMMA EmptyTotal == Total(<<>>) = 0
<1>1. <<>> \in Seq(Entries) /\ Len(<<>>) = 0
  OBVIOUS
<1>2. AreEnds(Ends(<<>>), <<>>, 0)
  BY <1>1, EndsAre, Zenon
<1> QED
  BY <1>1, <1>2 DEF AreEnds, Total

LEMMA TotalIs ==
    ASSUME NEW rs \in Seq(Entries), NEW e \in Entries
    PROVE  /\ Total(rs) \in Nat
           /\ Total(Append(rs, e)) = Total(rs) + RecordSize(e)
<1>1. Len(rs) \in Nat /\ Total(rs) \in Nat
  BY EndsAre DEF Total
<1> DEFINE ss == Append(rs, e)
           f == Ends(ss)
           g == [n \in 0..Len(rs) |-> f[n]]
<1>3. /\ ss \in Seq(Entries) /\ Len(ss) = Len(rs) + 1 /\ ss[Len(rs) + 1] = e
      /\ \A n \in 1..Len(rs) : ss[n] = rs[n]
  OBVIOUS
<1>4. \A n \in 0..Len(rs) + 1 : f[n] = IF n = 0 THEN 0 ELSE f[n - 1] + RecordSize(ss[n])
  <2>1. AreEnds(f, ss, Len(rs) + 1)
    BY <1>3, EndsAre
  <2> QED
    BY <2>1, ZenonT(40) DEF AreEnds
<1>5. f[Len(rs) + 1] = f[Len(rs)] + RecordSize(e)
  BY <1>1, <1>3, <1>4
<1>6. AreEnds(g, ss, Len(rs))
  <2> HIDE DEF f, ss
  <2>1. \A n \in 0..Len(rs) : g[n] = IF n = 0 THEN 0 ELSE g[n - 1] + RecordSize(ss[n])
    BY <1>1, <1>4
  <2> QED
    BY <2>1 DEF AreEnds
<1>7. g = Ends(rs)
  <2>1. AreEnds(Ends(rs), rs, Len(rs))
    BY EndsAre
  <2> HIDE DEF g, f, ss
  <2> QED
    BY <1>1, <1>3, <1>6, <2>1, EndsAgree, ZenonT(40)
<1>8. f[Len(rs)] = Total(rs)
  BY <1>1, <1>7 DEF Total
<1>9. Total(ss) = f[Len(rs) + 1]
  BY <1>3 DEF Total
<1> QED
  BY <1>1, <1>5, <1>8, <1>9

-----------------------------------------------------------------------------
(***************************************************************************)
(* The second inductive invariant, for disks of any kind: whatever may be  *)
(* on the disk is well formed, has no record twice and, where sizes do not *)
(* lead, is within the limits of open; and the index of an open store is   *)
(* the committed part of its file.                                         *)
(***************************************************************************)
Whole(c) ==
    /\ c \in Contents
    /\ c.hdr # HeaderSize => c.recs = <<>>
    /\ IsInjective(c.recs)

Fine(c) == Whole(c) /\ (~SizeMayLead => Readable(c))

FilesInv == file \in durable /\ \A c \in durable : Fine(c)

StoresInv ==
    /\ named \in BOOLEAN
    /\ opened \subseteq Procs
    /\ \A p, q \in opened : p = q
    /\ mem \in [Procs -> SUBSET Entries]
    /\ len \in [Procs -> Nat]
    /\ \A p \in opened :
          len[p] <= Len(file.recs) /\ mem[p] = Range(Committed(p))

LedgerInv == FilesInv /\ StoresInv

\* Records that are there once are as many as they are long.
LEMMA OnceEach ==
    ASSUME NEW rs \in Seq(Entries), IsInjective(rs)
    PROVE  Cardinality(Range(rs)) = Len(rs)
<1>1. Len(rs) \in Nat /\ rs \in [1..Len(rs) -> Entries]
  OBVIOUS
<1>2. rs \in Injection(1..Len(rs), Entries)
  BY <1>1 DEF Injection
<1>3. rs \in Bijection(1..Len(rs), Range(rs))
  BY <1>2, Fun_InjMeansBijImage
<1>4. ExistsBijection(1..Len(rs), Range(rs))
  BY <1>3 DEF ExistsBijection
<1> QED
  BY <1>1, <1>4, FS_CountingElements

\* A part of them, and one more, are there once.
LEMMA OnceMore ==
    ASSUME NEW rs \in Seq(Entries), IsInjective(rs), NEW n \in Nat, n <= Len(rs),
           NEW e \in Entries
    PROVE  LET pre == SubSeq(rs, 1, n)
           IN  /\ IsInjective(pre)
               /\ e \notin Range(pre) => IsInjective(Append(pre, e))
<1> DEFINE pre == SubSeq(rs, 1, n)
<1>1. pre \in Seq(Entries) /\ Len(pre) = n /\ \A i \in 1..n : pre[i] = rs[i]
  OBVIOUS
<1>2. /\ Append(pre, e) \in Seq(Entries) /\ Len(Append(pre, e)) = n + 1
      /\ Append(pre, e)[n + 1] = e /\ \A i \in 1..n : Append(pre, e)[i] = pre[i]
  BY <1>1
<1> HIDE DEF pre
<1>3. DOMAIN pre = 1..n /\ DOMAIN Append(pre, e) = 1..n + 1 /\ DOMAIN rs = 1..Len(rs)
  BY <1>1, <1>2
<1>4. IsInjective(pre)
  BY <1>1, <1>3 DEF IsInjective
<1>5. ASSUME e \notin Range(pre) PROVE IsInjective(Append(pre, e))
  <2>1. \A i \in 1..n : pre[i] # e
    BY <1>3, <1>5 DEF Range
  <2>2. ASSUME NEW i \in 1..n + 1, NEW j \in 1..n + 1,
               Append(pre, e)[i] = Append(pre, e)[j]
        PROVE  i = j
    <3>1. (i \in 1..n \/ i = n + 1) /\ (j \in 1..n \/ j = n + 1)
      OBVIOUS
    <3> QED
      BY <1>2, <1>3, <1>4, <2>1, <2>2, <3>1, ZenonT(40) DEF IsInjective
  <2> QED
    BY <1>3, <2>2 DEF IsInjective
<1> QED
  BY <1>4, <1>5 DEF pre

\* No record is longer than a record may be: of a part of them, and of one more.
Short(rs) == \A i \in DOMAIN rs : Size[rs[i]] <= MaxRecord

LEMMA ShortMore ==
    ASSUME NEW rs \in Seq(Entries), Short(rs), NEW n \in Nat, n <= Len(rs),
           NEW e \in Entries, Size[e] <= MaxRecord
    PROVE  Short(SubSeq(rs, 1, n)) /\ Short(Append(SubSeq(rs, 1, n), e))
<1> DEFINE pre == SubSeq(rs, 1, n)
<1>1. pre \in Seq(Entries) /\ Len(pre) = n /\ \A i \in 1..n : pre[i] = rs[i]
  OBVIOUS
<1>2. /\ Append(pre, e) \in Seq(Entries) /\ Len(Append(pre, e)) = n + 1
      /\ Append(pre, e)[n + 1] = e /\ \A i \in 1..n : Append(pre, e)[i] = pre[i]
  BY <1>1
<1> HIDE DEF pre
<1>3. DOMAIN pre = 1..n /\ DOMAIN Append(pre, e) = 1..n + 1 /\ DOMAIN rs = 1..Len(rs)
  BY <1>1, <1>2
<1>4. Short(pre)
  BY <1>1, <1>3 DEF Short
<1>5. \A i \in 1..n + 1 : i \in 1..n \/ i = n + 1
  OBVIOUS
<1>6. Short(Append(pre, e))
  BY <1>2, <1>3, <1>4, <1>5, ZenonT(40) DEF Short
<1> QED
  BY <1>4, <1>6 DEF pre

\* The sizes of what the journal writes: whole records, and a part of one more.
LEMMA Sizes ==
    ASSUME NEW rs \in Seq(Entries), IsInjective(rs)
    PROVE  /\ Whole(WithRecords(rs)) /\ WithRecords(rs).recs = rs
           /\ WithRecords(rs).hdr = HeaderSize /\ WithRecords(rs).tail = 0
           /\ Bytes(WithRecords(rs)) = HeaderSize + Total(rs)
<1>1. HeaderSize \in Nat /\ HeaderSize \in 0..HeaderSize
  BY JournalAssumption
<1>2. Total(rs) \in Nat
  BY EndsAre DEF Total
<1> DEFINE b == WithRecords(rs)
<1>3. b \in Contents /\ b.hdr = HeaderSize /\ b.recs = rs /\ b.tail = 0
  BY <1>1 DEF WithRecords, Contents
<1> HIDE DEF b
<1>4. Whole(b)
  BY <1>3 DEF Whole
<1>5. Bytes(b) = HeaderSize + Total(rs)
  BY <1>1, <1>2, <1>3 DEF Bytes, Total
<1> QED
  BY <1>3, <1>4, <1>5 DEF b

LEMMA PartSizes ==
    ASSUME NEW rs \in Seq(Entries), IsInjective(rs), NEW e \in Entries, NEW k \in Nat
    PROVE  LET c == WithPart(rs, e, k)
           IN  /\ Whole(c) /\ c.recs = rs /\ c.hdr = HeaderSize /\ c.tail = k
               /\ k >= PrefixSize => c.size = Size[e]
               /\ Bytes(c) = HeaderSize + Total(rs) + k
<1>1. /\ HeaderSize \in Nat /\ HeaderSize \in 0..HeaderSize
      /\ PrefixSize \in Nat /\ Size[e] \in Nat
  BY JournalAssumption
<1>2. Total(rs) \in Nat
  BY EndsAre DEF Total
<1> DEFINE c == WithPart(rs, e, k)
<1>3. c = [hdr |-> HeaderSize, recs |-> rs, tail |-> k,
           size |-> IF k < PrefixSize THEN 0 ELSE Size[e]]
  BY DEF WithPart
<1> HIDE DEF c
<1>4. /\ c.hdr = HeaderSize /\ c.recs = rs /\ c.tail = k /\ c.size \in Nat
      /\ k >= PrefixSize => c.size = Size[e]
  <2> DEFINE z == IF k < PrefixSize THEN 0 ELSE Size[e]
  <2>1. z \in Nat /\ (k >= PrefixSize => z = Size[e])
    BY <1>1
  <2>2. c = [hdr |-> HeaderSize, recs |-> rs, tail |-> k, size |-> z]
    BY <1>3
  <2> HIDE DEF z
  <2>3. c.hdr = HeaderSize /\ c.recs = rs /\ c.tail = k /\ c.size = z
    BY <2>2
  <2> QED
    BY <2>1, <2>3
<1>5. c \in Contents
  <2> DEFINE z == c.size
  <2>1. c = [hdr |-> HeaderSize, recs |-> rs, tail |-> k, size |-> z]
    BY <1>3
  <2> HIDE DEF z
  <2>2. z \in Nat
    BY <1>4 DEF z
  <2> QED
    BY <1>1, <2>1, <2>2 DEF Contents
<1>6. Whole(c)
  BY <1>4, <1>5 DEF Whole
<1>7. Bytes(c) = HeaderSize + Total(rs) + k
  BY <1>1, <1>2, <1>4 DEF Bytes, Total
<1> QED
  BY <1>4, <1>5, <1>6, <1>7 DEF c

LEMMA HeaderSizes ==
    ASSUME NEW k \in 0..HeaderSize
    PROVE  Fine(WithHeader(k)) /\ WithHeader(k).recs = <<>>
<1>1. HeaderSize \in Nat /\ MaxBytes \in Nat /\ MaxEntries \in Nat /\ HeaderSize <= MaxBytes
  BY JournalAssumption
<1>2. <<>> \in Seq(Entries) /\ Len(<<>>) = 0 /\ IsInjective(<<>>)
  BY DEF IsInjective
<1>3. Ends(<<>>)[0] = 0
  BY <1>2, EmptyTotal DEF Total
<1>4. Bytes(WithHeader(k)) = k
  BY <1>1, <1>2, <1>3 DEF WithHeader, Empty, Bytes
<1>5. Whole(WithHeader(k))
  BY <1>1, <1>2, Zenon DEF WithHeader, Empty, Whole, Contents
<1>6. Readable(WithHeader(k))
  <2>1. /\ WithHeader(k).recs = <<>> /\ WithHeader(k).tail = 0
        /\ PrefixSize \in Nat \ {0} /\ DOMAIN <<>> = {}
    BY JournalAssumption DEF WithHeader, Empty
  <2> QED
    BY <1>1, <1>2, <1>4, <2>1 DEF Readable
<1> QED
  BY <1>5, <1>6 DEF Fine, WithHeader, Empty

\* Of whole contents the size is a number.
LEMMA WholeBytes ==
    ASSUME NEW c, Whole(c)
    PROVE  /\ c.recs \in Seq(Entries) /\ IsInjective(c.recs) /\ Len(c.recs) \in Nat
           /\ c.hdr \in 0..HeaderSize /\ c.tail \in Nat
           /\ Total(c.recs) \in Nat
           /\ Bytes(c) = c.hdr + Total(c.recs) + c.tail /\ Bytes(c) \in Nat
<1>1. /\ c.recs \in Seq(Entries) /\ IsInjective(c.recs) /\ Len(c.recs) \in Nat
      /\ c.hdr \in 0..HeaderSize /\ c.tail \in Nat
  BY DEF Whole, Contents
<1>2. Total(c.recs) \in Nat
  BY <1>1, EndsAre DEF Total
<1>3. c.hdr \in Nat
  BY <1>1, JournalAssumption
<1> QED
  BY <1>1, <1>2, <1>3, SMTT(30) DEF Bytes, Total

\* What open accepts it still accepts with its tail cut off.
LEMMA CutFine ==
    ASSUME NEW c, Whole(c), Readable(c)
    PROVE  Fine(WithRecords(c.recs))
<1> DEFINE b == WithRecords(c.recs)
<1>1. /\ c.recs \in Seq(Entries) /\ IsInjective(c.recs) /\ Len(c.recs) \in Nat
      /\ c.hdr \in 0..HeaderSize /\ c.tail \in Nat /\ Total(c.recs) \in Nat
      /\ Bytes(c) = c.hdr + Total(c.recs) + c.tail
  BY WholeBytes, ZenonT(40)
<1>2. /\ Whole(b) /\ b.recs = c.recs /\ b.hdr = HeaderSize /\ b.tail = 0
      /\ Bytes(b) = HeaderSize + Total(c.recs)
  BY <1>1, Sizes, ZenonT(40)
<1>3. /\ HeaderSize \in Nat /\ MaxBytes \in Nat /\ HeaderSize <= MaxBytes
      /\ PrefixSize \in Nat /\ PrefixSize > 0
  BY JournalAssumption
<1>4. /\ Bytes(c) <= MaxBytes /\ Len(c.recs) <= MaxEntries
      /\ \A i \in DOMAIN c.recs : Size[c.recs[i]] <= MaxRecord
  BY Zenon DEF Readable
<1> HIDE DEF b
<1>5. Bytes(b) <= MaxBytes
  <2>1. CASE c.hdr = HeaderSize
    BY <1>1, <1>2, <1>3, <1>4, <2>1
  <2>2. CASE c.hdr # HeaderSize
    <3>1. c.recs = <<>>
      BY <2>2, Zenon DEF Whole
    <3>2. Total(c.recs) = 0
      BY <3>1, EmptyTotal
    <3> QED
      BY <1>2, <1>3, <3>2
  <2> QED
    BY <2>1, <2>2, ZenonT(40)
<1>6. ~(b.hdr < HeaderSize) /\ ~(b.tail >= PrefixSize)
  BY <1>2, <1>3
<1>7. Readable(b)
  BY <1>2, <1>4, <1>5, <1>6, ZenonT(40) DEF Readable
<1> QED
  BY <1>2, <1>7, Zenon DEF Fine, b

\* After a sync, and after writing without one.
LEMMA SyncFine ==
    ASSUME NEW c, Fine(c), Sync(c), named \in BOOLEAN
    PROVE  FilesInv' /\ file' = c /\ named' \in BOOLEAN
<1>1. file' = c /\ durable' = {c}
  BY DEF Sync
<1>2. named' \in BOOLEAN
  BY Zenon DEF Sync
<1> QED
  BY <1>1, <1>2 DEF FilesInv

LEMMA UnsyncedFine ==
    ASSUME FilesInv, NEW base, Whole(base), NEW cs, \A c \in cs : Fine(c),
           file' \in cs, durable' = Unsynced(base, cs)
    PROVE  FilesInv'
<1>1. ASSUME NEW c \in durable', c \notin durable, c \notin cs
      PROVE  Fine(c)
  <2>1. PICK d \in cs : c = Zeroed(base, d) /\ SizeMayLead /\ Bytes(d) > Bytes(base)
    BY <1>1, Zenon DEF Unsynced
  <2>2. Bytes(d) \in Nat /\ Bytes(base) \in Nat
    BY <2>1, WholeBytes, ZenonT(40) DEF Fine
  <2>3. Bytes(d) - Bytes(base) \in Nat
    BY <2>1, <2>2
  <2>4. Whole(c)
    BY <2>1, <2>3, Zenon DEF Zeroed, Whole, Contents
  <2> QED
    BY <2>1, <2>4 DEF Fine
<1>2. file' \in durable'
  BY DEF Unsynced
<1> QED
  BY <1>1, <1>2 DEF FilesInv

\* An open store shows as many entries as it has committed.
LEMMA CommittedCount ==
    ASSUME LedgerInv, NEW p \in opened
    PROVE  Cardinality(mem[p]) = len[p]
<1>1. p \in Procs /\ mem[p] = Range(Committed(p))
  BY DEF LedgerInv, StoresInv
<1>2. /\ file.recs \in Seq(Entries) /\ IsInjective(file.recs)
      /\ len[p] \in Nat /\ len[p] <= Len(file.recs)
  BY <1>1, WholeBytes DEF LedgerInv, StoresInv, FilesInv, Fine
<1> DEFINE pre == SubSeq(file.recs, 1, len[p])
<1>3. pre \in Seq(Entries) /\ Len(pre) = len[p] /\ \A i \in 1..len[p] : pre[i] = file.recs[i]
  BY <1>2
<1> HIDE DEF pre
<1>4. DOMAIN pre = 1..len[p] /\ DOMAIN file.recs = 1..Len(file.recs)
  BY <1>2, <1>3
<1>5. IsInjective(pre)
  BY <1>2, <1>3, <1>4 DEF IsInjective
<1>6. Committed(p) = pre
  BY Zenon DEF Committed, pre
<1> QED
  BY <1>1, <1>3, <1>5, <1>6, OnceEach, ZenonT(40)

\* The committed records of an open store, and one more.
LEMMA CommittedFits ==
    ASSUME LedgerInv, NEW p \in opened, NEW e \in Entries
    PROVE  /\ p \in Procs /\ opened = {p} /\ len[p] \in Nat
           /\ Committed(p) \in Seq(Entries) /\ Len(Committed(p)) = len[p]
           /\ IsInjective(Committed(p)) /\ Cardinality(mem[p]) = len[p]
           /\ SubSeq(Committed(p), 1, len[p]) = Committed(p)
           /\ LET rs == Append(Committed(p), e)
              IN  /\ rs \in Seq(Entries) /\ Len(rs) = len[p] + 1
                  /\ SubSeq(rs, 1, len[p]) = Committed(p)
                  /\ SubSeq(rs, 1, len[p] + 1) = rs
                  /\ Range(rs) = mem[p] \cup {e}
                  /\ e \notin mem[p] => IsInjective(rs)
<1>1. p \in Procs /\ opened = {p} /\ mem[p] = Range(Committed(p))
  BY DEF LedgerInv, StoresInv
<1>2. /\ file.recs \in Seq(Entries) /\ IsInjective(file.recs)
      /\ len[p] \in Nat /\ len[p] <= Len(file.recs)
  BY <1>1, WholeBytes DEF LedgerInv, StoresInv, FilesInv, Fine
<1> DEFINE pre == SubSeq(file.recs, 1, len[p])
           rs  == Append(pre, e)
<1>3. Committed(p) = pre
  BY DEF Committed
<1>4. /\ pre \in Seq(Entries) /\ Len(pre) = len[p] /\ SubSeq(pre, 1, len[p]) = pre
      /\ rs \in Seq(Entries) /\ Len(rs) = len[p] + 1
      /\ SubSeq(rs, 1, len[p]) = pre /\ SubSeq(rs, 1, len[p] + 1) = rs
      /\ Range(rs) = Range(pre) \cup {e}
  <2> HIDE DEF pre, rs
  <2> QED
    BY <1>2, Prefix, ZenonT(40) DEF pre, rs
<1>5. IsInjective(pre) /\ (e \notin Range(pre) => IsInjective(rs))
  <2> HIDE DEF pre, rs
  <2> QED
    BY <1>2, OnceMore, Zenon DEF pre, rs
<1>6. rs = Append(Committed(p), e)
  BY <1>3
<1> HIDE DEF pre, rs
<1>7. Cardinality(mem[p]) = len[p]
  BY CommittedCount
<1> QED
  BY <1>1, <1>2, <1>3, <1>4, <1>5, <1>6, <1>7, ZenonT(40)

\* What an append may leave is within the limits that open checks.
LEMMA AppendFits ==
    ASSUME LedgerInv, NEW p \in opened, NEW e \in Entries, e \notin mem[p], HasRoom(p, e)
    PROVE  /\ Fine(WithRecords(Append(Committed(p), e)))
           /\ WithRecords(Append(Committed(p), e)).recs = Append(Committed(p), e)
           /\ \A k \in 0..RecordSize(e) - 1 :
                 Fine(WithPart(Committed(p), e, k)) /\ WithPart(Committed(p), e, k).recs = Committed(p)
<1> DEFINE pre == Committed(p)
           rs  == Append(pre, e)
<1>1. /\ pre \in Seq(Entries) /\ IsInjective(pre) /\ Len(pre) = len[p] /\ len[p] \in Nat
      /\ rs \in Seq(Entries) /\ IsInjective(rs) /\ Len(rs) = len[p] + 1
      /\ Cardinality(mem[p]) = len[p]
  BY CommittedFits, Zenon
<1>2. Total(pre) \in Nat /\ Total(rs) = Total(pre) + RecordSize(e)
  BY <1>1, TotalIs
<1>3. Bytes(WithRecords(pre)) = HeaderSize + Total(pre)
  BY <1>1, Sizes, Zenon
<1>4. /\ HeaderSize \in Nat /\ RecordSize(e) \in Nat
      /\ PrefixSize \in Nat /\ PrefixSize > 0 /\ Size[e] \in Nat /\ Size[e] > 0
      /\ MaxBytes \in Nat /\ MaxEntries \in Nat /\ MaxRecord \in Nat
  BY JournalAssumption DEF RecordSize
<1>5. len[p] + 1 <= MaxEntries /\ HeaderSize + Total(pre) + RecordSize(e) <= MaxBytes
  BY <1>1, <1>2, <1>3, <1>4, SMTT(30) DEF HasRoom
<1>6. ASSUME ~SizeMayLead PROVE Short(pre) /\ Short(rs)
  <2>1. /\ file.recs \in Seq(Entries) /\ Short(file.recs)
        /\ len[p] \in Nat /\ len[p] <= Len(file.recs)
    BY <1>1, <1>6, WholeBytes, ZenonT(40)
    DEF LedgerInv, FilesInv, StoresInv, Fine, Readable, Short
  <2>2. Size[e] <= MaxRecord /\ pre = SubSeq(file.recs, 1, len[p])
    BY Zenon DEF HasRoom, Committed
  <2> QED
    BY <2>1, <2>2, ShortMore, ZenonT(40)
<1> HIDE DEF pre, rs
<1>7. Fine(WithRecords(rs)) /\ WithRecords(rs).recs = rs
  <2> DEFINE b == WithRecords(rs)
  <2>1. /\ Whole(b) /\ b.recs = rs /\ b.hdr = HeaderSize /\ b.tail = 0
        /\ Bytes(b) = HeaderSize + Total(rs)
    BY <1>1, Sizes, Zenon
  <2> HIDE DEF b
  <2>2. Bytes(b) <= MaxBytes /\ Len(b.recs) <= MaxEntries /\ ~(b.hdr < HeaderSize)
        /\ ~(b.tail >= PrefixSize)
    BY <1>1, <1>2, <1>4, <1>5, <2>1
  <2>3. ~SizeMayLead => Readable(b)
    BY <1>6, <2>1, <2>2, ZenonT(40) DEF Readable, Short
  <2> QED
    BY <2>1, <2>3, Zenon DEF Fine, b
<1>8. ASSUME NEW k \in 0..RecordSize(e) - 1
      PROVE  Fine(WithPart(pre, e, k)) /\ WithPart(pre, e, k).recs = pre
  <2> DEFINE c == WithPart(pre, e, k)
  <2>1. k \in Nat /\ k <= RecordSize(e)
    BY <1>4
  <2>2. /\ Whole(c) /\ c.recs = pre /\ c.hdr = HeaderSize /\ c.tail = k
        /\ k >= PrefixSize => c.size = Size[e]
        /\ Bytes(c) = HeaderSize + Total(pre) + k
    BY <1>1, <2>1, PartSizes, ZenonT(40)
  <2> HIDE DEF c
  <2>3. Bytes(c) <= MaxBytes
    BY <1>2, <1>4, <1>5, <2>1, <2>2, SMTT(30)
  <2>4. Len(c.recs) <= MaxEntries /\ ~(c.hdr < HeaderSize)
    BY <1>1, <1>4, <1>5, <2>2, SMTT(30)
  <2>5. c.tail >= PrefixSize => c.size \in 1..MaxRecord
    <3>1. Size[e] \in 1..MaxRecord
      BY <1>4 DEF HasRoom
    <3> QED
      BY <2>2, <3>1, ZenonT(40)
  <2>6. ~SizeMayLead => Readable(c)
    BY <1>6, <2>2, <2>3, <2>4, <2>5, ZenonT(40) DEF Readable, Short
  <2> QED
    BY <2>2, <2>6, Zenon DEF Fine, c
<1> QED
  BY <1>7, <1>8 DEF pre, rs

-----------------------------------------------------------------------------
(* Each step keeps it.                                                     *)

LEMMA InitLedgerInv == Init => LedgerInv
<1> SUFFICES ASSUME Init PROVE LedgerInv
  OBVIOUS
<1>1. 0 \in 0..HeaderSize /\ WithHeader(0) = Empty
  BY JournalAssumption DEF WithHeader, Empty
<1>2. Fine(Empty)
  BY <1>1, HeaderSizes, ZenonT(40)
<1> QED
  BY <1>2, Zenon DEF Init, LedgerInv, FilesInv, StoresInv

LEMMA LedgerOpen ==
    ASSUME LedgerInv, NEW p \in Procs, OpenNew(p) \/ OpenExisting(p)
    PROVE  LedgerInv'
<1>1. Lockable /\ Loaded(p) /\ Readable(file) /\ Whole(file) /\ named \in BOOLEAN
  BY DEF OpenNew, OpenExisting, LedgerInv, FilesInv, StoresInv, Fine
<1>2. /\ file.recs \in Seq(Entries) /\ IsInjective(file.recs) /\ Len(file.recs) \in Nat
      /\ file.hdr \in 0..HeaderSize /\ file.tail \in Nat /\ Total(file.recs) \in Nat
      /\ Bytes(file) = file.hdr + Total(file.recs) + file.tail
  BY <1>1, WholeBytes, ZenonT(40)
<1>3. FilesInv' /\ file'.recs = file.recs /\ named' \in BOOLEAN
  <2>1. CASE OpenNew(p)
    <3>1. /\ file.hdr # HeaderSize /\ HeaderSize \in 0..HeaderSize
      BY <2>1, JournalAssumption, SMTT(30) DEF OpenNew
    <3>2. file' = WithHeader(HeaderSize) /\ durable' = {file'} /\ named' = TRUE
      BY <2>1 DEF OpenNew
    <3>3. file.recs = <<>>
      BY <1>1, <3>1 DEF Whole
    <3> QED
      BY <3>1, <3>2, <3>3, HeaderSizes, ZenonT(40) DEF FilesInv
  <2>2. CASE OpenExisting(p) /\ UNCHANGED <<file, durable, named>>
    BY <1>1, <2>2 DEF LedgerInv, FilesInv
  <2>3. CASE OpenExisting(p) /\ Sync(WithRecords(file.recs))
    <3>1. /\ Whole(WithRecords(file.recs)) /\ WithRecords(file.recs).recs = file.recs
      BY <1>2, Sizes, Zenon
    <3>2. Fine(WithRecords(file.recs))
      BY <1>1, CutFine, Zenon
    <3> QED
      BY <1>1, <2>3, <3>1, <3>2, SyncFine, ZenonT(40)
  <2> QED
    BY <2>1, <2>2, <2>3, ZenonT(40) DEF OpenExisting
<1>4. opened = {} /\ opened' = {p}
  BY <1>1 DEF Lockable, Loaded
<1>5. /\ mem' = [mem EXCEPT ![p] = Range(file.recs)]
      /\ len' = [len EXCEPT ![p] = Len(file.recs)]
  BY <1>1 DEF Loaded
<1>6. Range(file.recs) \subseteq Entries
  BY <1>2 DEF Range
<1>7. mem' \in [Procs -> SUBSET Entries] /\ len' \in [Procs -> Nat]
  BY <1>2, <1>5, <1>6, ZenonT(40) DEF LedgerInv, StoresInv
<1>8. mem'[p] = Range(file.recs) /\ len'[p] = Len(file.recs)
  BY <1>5 DEF LedgerInv, StoresInv
<1>9. SubSeq(file.recs, 1, Len(file.recs)) = file.recs
  BY <1>2
<1>10. Committed(p)' = file.recs
  BY <1>3, <1>8, <1>9, ZenonT(40) DEF Committed
<1>11. len'[p] <= Len(file'.recs) /\ mem'[p] = Range(Committed(p)')
  BY <1>2, <1>3, <1>8, <1>10, SMTT(30)
<1>12. StoresInv'
  BY <1>3, <1>4, <1>7, <1>11, ZenonT(40) DEF StoresInv
<1> QED
  BY <1>3, <1>12, ZenonT(40) DEF LedgerInv

\* Nothing is open, so the index says nothing of the file.
LEMMA LedgerOpenFails ==
    ASSUME LedgerInv, OpenFails
    PROVE  LedgerInv'
<1>1. /\ opened = {} /\ UNCHANGED <<opened, mem, len>>
      /\ FilesInv /\ Readable(file) /\ Whole(file) /\ named \in BOOLEAN
  BY DEF OpenFails, Lockable, LedgerInv, FilesInv, StoresInv, Fine
<1>2. /\ file.recs \in Seq(Entries) /\ IsInjective(file.recs) /\ Len(file.recs) \in Nat
      /\ file.hdr \in 0..HeaderSize /\ file.tail \in Nat /\ Total(file.recs) \in Nat
      /\ Bytes(file) = file.hdr + Total(file.recs) + file.tail
  BY <1>1, WholeBytes
<1>3. HeaderSize \in Nat /\ MaxBytes \in Nat /\ HeaderSize <= MaxBytes
  BY JournalAssumption
<1>4. SUFFICES FilesInv' /\ named' \in BOOLEAN
  BY <1>1 DEF LedgerInv, StoresInv
<1>5. ASSUME NEW n \in file.hdr..HeaderSize, file' = WithHeader(n), UNCHANGED named,
             durable' = Unsynced(file, {WithHeader(k) : k \in file.hdr..n})
      PROVE  FilesInv' /\ named' \in BOOLEAN
  <2> DEFINE cs == {WithHeader(k) : k \in file.hdr..n}
  <2>1. file.hdr \in Nat /\ n \in file.hdr..n
    BY <1>2, <1>3, <1>5
  <2>2. \A c \in cs : Fine(c)
    BY <1>3, <1>5, <2>1, HeaderSizes
  <2>3. file' \in cs /\ durable' = Unsynced(file, cs)
    BY <1>5, <2>1, ZenonT(40)
  <2> HIDE DEF cs
  <2> QED
    BY <1>1, <1>5, <2>2, <2>3, UnsyncedFine, Zenon
<1>6. ASSUME Sync(WithHeader(HeaderSize))
      PROVE  FilesInv' /\ named' \in BOOLEAN
  <2>1. HeaderSize \in 0..HeaderSize
    BY <1>3
  <2> QED
    BY <1>1, <1>6, <2>1, HeaderSizes, SyncFine, ZenonT(40)
<1>7. ASSUME file' = WithRecords(file.recs), durable' = Unsynced(file', {file'}),
             UNCHANGED named
      PROVE  FilesInv' /\ named' \in BOOLEAN
  <2> DEFINE c == WithRecords(file.recs)
  <2>1. c.recs = file.recs /\ Fine(c) /\ Whole(c)
    BY <1>1, <1>2, CutFine, Sizes, Zenon
  <2> HIDE DEF c
  <2>2. file' = c
    BY <1>7 DEF c
  <2> QED
    BY <1>1, <1>7, <2>1, <2>2, UnsyncedFine, ZenonT(40)
<1> QED
  BY <1>5, <1>6, <1>7, Zenon DEF OpenFails

LEMMA LedgerInsert ==
    ASSUME LedgerInv, NEW p \in Procs, NEW e \in Entries, Insert(p, e)
    PROVE  LedgerInv'
<1> DEFINE rs == Append(Committed(p), e)
<1>1. /\ p \in opened /\ e \notin mem[p] /\ HasRoom(p, e) /\ UNCHANGED opened
      /\ Sync(WithRecords(rs))
      /\ mem' = [mem EXCEPT ![p] = @ \cup {e}]
      /\ len' = [len EXCEPT ![p] = @ + 1]
      /\ StoresInv
  BY DEF Insert, LedgerInv
<1>2. /\ opened = {p} /\ len[p] \in Nat /\ rs \in Seq(Entries) /\ Len(rs) = len[p] + 1
      /\ SubSeq(rs, 1, len[p] + 1) = rs /\ Range(rs) = mem[p] \cup {e}
  BY <1>1, CommittedFits
<1>3. Fine(WithRecords(rs)) /\ WithRecords(rs).recs = rs
  BY <1>1, AppendFits, ZenonT(40)
<1> HIDE DEF rs
<1>4. FilesInv' /\ file'.recs = rs /\ named' \in BOOLEAN
  BY <1>1, <1>3, SyncFine, ZenonT(40) DEF StoresInv
<1>5. mem' \in [Procs -> SUBSET Entries] /\ len' \in [Procs -> Nat]
  BY <1>1, <1>2 DEF StoresInv
<1>6. mem'[p] = Range(rs) /\ len'[p] = len[p] + 1
  BY <1>1, <1>2, ZenonT(40) DEF StoresInv
<1>7. Committed(p)' = rs
  BY <1>2, <1>4, <1>6, ZenonT(40) DEF Committed
<1>8. len'[p] <= Len(file'.recs) /\ mem'[p] = Range(Committed(p)')
  BY <1>2, <1>4, <1>6, <1>7, SMTT(30)
<1>9. StoresInv'
  BY <1>1, <1>2, <1>4, <1>5, <1>8, ZenonT(40) DEF StoresInv
<1> QED
  BY <1>4, <1>9 DEF LedgerInv

LEMMA LedgerInsertFails ==
    ASSUME LedgerInv, NEW p \in Procs, NEW e \in Entries, InsertFails(p, e)
    PROVE  LedgerInv'
<1> DEFINE pre == Committed(p)
           rs  == Append(pre, e)
           partial(n) == WithPart(pre, e, n)
<1>1. /\ p \in opened /\ e \notin mem[p] /\ HasRoom(p, e)
      /\ UNCHANGED <<named, opened, mem, len>>
      /\ FilesInv /\ StoresInv
  BY DEF InsertFails, LedgerInv
<1>2. /\ opened = {p} /\ len[p] \in Nat /\ mem[p] = Range(pre)
      /\ pre \in Seq(Entries) /\ Len(pre) = len[p] /\ SubSeq(pre, 1, len[p]) = pre
      /\ rs \in Seq(Entries) /\ Len(rs) = len[p] + 1
      /\ SubSeq(rs, 1, len[p]) = pre
  BY <1>1, CommittedFits DEF StoresInv
<1>3. /\ Fine(WithRecords(rs)) /\ WithRecords(rs).recs = rs
      /\ \A k \in 0..RecordSize(e) - 1 : Fine(partial(k)) /\ partial(k).recs = pre
  BY <1>1, AppendFits
<1>4. RecordSize(e) \in Nat /\ 0 \in 0..RecordSize(e) - 1
  BY JournalAssumption DEF RecordSize
<1>5. \/ \E n \in 0..RecordSize(e) - 1 :
           /\ file' = partial(n)
           /\ durable' = Unsynced(partial(0), {partial(k) : k \in 0..n})
      \/ /\ file' = WithRecords(rs)
         /\ durable' = Unsynced(partial(0),
                                {partial(k) : k \in 0..RecordSize(e) - 1} \cup {WithRecords(rs)})
  BY Zenon DEF InsertFails
<1> HIDE DEF pre, rs, partial
<1>6. PICK cs :
        /\ file' \in cs /\ durable' = Unsynced(partial(0), cs)
        /\ \A c \in cs : Fine(c) /\ (c.recs = pre \/ c.recs = rs)
  <2>1. ASSUME NEW n \in 0..RecordSize(e) - 1, file' = partial(n),
               durable' = Unsynced(partial(0), {partial(k) : k \in 0..n})
        PROVE  \E cs :
                 /\ file' \in cs /\ durable' = Unsynced(partial(0), cs)
                 /\ \A c \in cs : Fine(c) /\ (c.recs = pre \/ c.recs = rs)
    <3> DEFINE cs == {partial(k) : k \in 0..n}
    <3>1. file' \in cs /\ \A c \in cs : Fine(c) /\ c.recs = pre
      BY <1>3, <1>4, <2>1
    <3> QED
      BY <2>1, <3>1, Zenon
  <2>2. ASSUME file' = WithRecords(rs),
               durable' = Unsynced(partial(0),
                                   {partial(k) : k \in 0..RecordSize(e) - 1} \cup {WithRecords(rs)})
        PROVE  \E cs :
                 /\ file' \in cs /\ durable' = Unsynced(partial(0), cs)
                 /\ \A c \in cs : Fine(c) /\ (c.recs = pre \/ c.recs = rs)
    <3> DEFINE cs == {partial(k) : k \in 0..RecordSize(e) - 1} \cup {WithRecords(rs)}
    <3>1. file' \in cs /\ \A c \in cs : Fine(c) /\ (c.recs = pre \/ c.recs = rs)
      BY <1>3, <2>2, ZenonT(40)
    <3> QED
      BY <2>2, <3>1, ZenonT(40)
  <2> QED
    BY <1>5, <2>1, <2>2, Zenon
<1>7. FilesInv'
  BY <1>1, <1>3, <1>4, <1>6, UnsyncedFine, ZenonT(40) DEF Fine
<1>8. len[p] <= Len(file'.recs) /\ SubSeq(file'.recs, 1, len[p]) = pre
  BY <1>2, <1>6
<1>9. Committed(p)' = pre
  BY <1>1, <1>8, ZenonT(40) DEF Committed
<1>10. StoresInv'
  BY <1>1, <1>2, <1>8, <1>9, ZenonT(40) DEF StoresInv
<1> QED
  BY <1>7, <1>10 DEF LedgerInv

LEMMA LedgerKill ==
    ASSUME LedgerInv, NEW p \in Procs, Kill(p)
    PROVE  LedgerInv'
<1>1. /\ p \in opened /\ opened' = opened \ {p}
      /\ mem' = [mem EXCEPT ![p] = {}] /\ len' = [len EXCEPT ![p] = 0]
      /\ UNCHANGED <<file, durable, named>>
  BY DEF Kill
<1>2. opened' = {}
  BY <1>1 DEF LedgerInv, StoresInv
<1> QED
  BY <1>1, <1>2 DEF LedgerInv, FilesInv, StoresInv

LEMMA LedgerPowerLoss ==
    ASSUME LedgerInv, PowerLoss
    PROVE  LedgerInv'
<1>1. /\ file' \in AfterPowerLoss /\ durable' = {file'}
      /\ opened' = {} /\ mem' = [p \in Procs |-> {}] /\ len' = [p \in Procs |-> 0]
  BY DEF PowerLoss
<1>2. named' \in BOOLEAN
  BY Zenon DEF PowerLoss
<1>3. Fine(Empty)
  <2>1. 0 \in 0..HeaderSize /\ WithHeader(0) = Empty
    BY JournalAssumption DEF WithHeader, Empty
  <2> QED
    BY <2>1, HeaderSizes
<1>4. Fine(file')
  BY <1>1, <1>3 DEF AfterPowerLoss, LedgerInv, FilesInv
<1> QED
  BY <1>1, <1>2, <1>4 DEF LedgerInv, FilesInv, StoresInv

LEMMA LedgerInvariance == Spec => []LedgerInv
<1>1. ASSUME LedgerInv, [Next]_vars PROVE LedgerInv'
  <2>1. CASE UNCHANGED vars
    BY <1>1, <2>1 DEF vars, LedgerInv, FilesInv, StoresInv, Committed
  <2> QED
    BY <1>1, <2>1, LedgerOpen, LedgerOpenFails, LedgerInsert, LedgerInsertFails, LedgerKill,
      LedgerPowerLoss, ZenonT(40) DEF Next
<1> QED
  BY <1>1, InitLedgerInv, PTL DEF Spec

(***************************************************************************)
(* On disks whose sizes do not lead, whatever an append, an open or a      *)
(* crash left behind is a file that Journal::open accepts: the limits that *)
(* append checks are those that open checks.                               *)
(***************************************************************************)
THEOREM JournalReopens == ~SizeMayLead /\ Spec => []Reopens
<1> SUFFICES ASSUME ~SizeMayLead PROVE Spec => []Reopens
  OBVIOUS
<1>1. ASSUME LedgerInv PROVE Reopens
  <2>1. Fine(Empty)
    <3>1. 0 \in 0..HeaderSize /\ WithHeader(0) = Empty
      BY JournalAssumption DEF WithHeader, Empty
    <3> QED
      BY <3>1, HeaderSizes
  <2> QED
    BY <1>1, <2>1 DEF LedgerInv, FilesInv, Fine, AfterPowerLoss, Reopens
<1> QED
  BY <1>1, LedgerInvariance, PTL

(***************************************************************************)
(* On any disk the index of an open store is the committed part of its     *)
(* file, each entry once: nothing a failed append left behind is in it     *)
(* (EntryStore::insert, Journal::append).                                  *)
(***************************************************************************)
THEOREM JournalIndexMatches == Spec => []IndexMatchesFile
<1>1. ASSUME LedgerInv PROVE IndexMatchesFile
  <2>1. TypeOK
    <3>1. file \in Contents /\ durable \in SUBSET Contents
      BY <1>1, ZenonT(40) DEF LedgerInv, FilesInv, Fine, Whole
    <3> QED
      BY <1>1, <3>1, ZenonT(40) DEF LedgerInv, StoresInv, TypeOK
  <2>2. ASSUME NEW p \in opened
        PROVE  /\ len[p] <= Len(file.recs) /\ mem[p] = Range(Committed(p))
               /\ Cardinality(mem[p]) = len[p]
    <3>1. len[p] <= Len(file.recs) /\ mem[p] = Range(Committed(p))
      BY <1>1 DEF LedgerInv, StoresInv
    <3>2. Cardinality(mem[p]) = len[p]
      BY <1>1, CommittedCount
    <3> QED
      BY <3>1, <3>2
  <2> QED
    BY <2>1, <2>2 DEF IndexMatchesFile
<1> QED
  BY <1>1, LedgerInvariance, PTL

-----------------------------------------------------------------------------
(***************************************************************************)
(* The app's process over all its lives.  Each component is proved by      *)
(* itself, for any number of edits, saves, deaths, failed writes and lost  *)
(* keys; a step of the app is a step of one, the other or both.            *)
(***************************************************************************)
-----------------------------------------------------------------------------
(* The board. *)

(***************************************************************************)
(* What the revision of a save says: if it is still that of the draft, the *)
(* draft is the text being saved.                                          *)
(***************************************************************************)
RevisionTells(s) ==
    /\ s.revision <= draftRevision
    /\ s.text # NoText /\ s.revision = draftRevision => s.text = draft
    /\ s.text # NoText /\ s.state = "stored" => s.text \in stored

WordsInv ==
    /\ {draft, savedState, typed} \subseteq Texts \cup {Blank}
    /\ draftRevision \in Nat
    /\ saves \in Seq(Saves) /\ Len(saves) <= 1
    /\ savedState = typed \/ (savedState = Blank /\ typed \in stored)
    /\ draft = savedState
    /\ \A i \in DOMAIN saves : RevisionTells(saves[i])

\* The provers handle flags better apart from the rest.
FlagsInv ==
    /\ sending \in BOOLEAN /\ error \in BOOLEAN
    /\ sending <=> saves # <<>>

BoardInv == WordsInv /\ FlagsInv

LEMMA BoardInitInv == BoardInit => BoardInv
<1>1. BoardInit => WordsInv
  BY DEF BoardInit, WordsInv
<1>2. BoardInit => FlagsInv
  BY Zenon DEF BoardInit, FlagsInv
<1> QED
  BY <1>1, <1>2, ZenonT(40) DEF BoardInv

LEMMA UpdateDraftInv ==
    ASSUME BoardInv, NEW text \in Texts \cup {Blank}, UpdateDraft(text)
    PROVE  BoardInv'
<1>1. FlagsInv'
  BY Zenon DEF UpdateDraft, BoardInv, FlagsInv
<1>2. /\ draft' = text /\ savedState' = text /\ typed' = text
      /\ draftRevision' = draftRevision + 1
      /\ UNCHANGED <<saves, stored>> /\ WordsInv
  BY ZenonT(40) DEF UpdateDraft, BoardInv
<1>3. \A i \in DOMAIN saves : saves[i].revision \in Nat
  <2>1. \A i \in DOMAIN saves : saves[i] \in Saves
    BY <1>2 DEF WordsInv
  <2> QED
    BY <2>1 DEF Saves
<1>4. \A i \in DOMAIN saves' : RevisionTells(saves[i])'
  BY <1>2, <1>3 DEF WordsInv, RevisionTells
<1>5. WordsInv'
  BY <1>2, <1>4 DEF WordsInv
<1> QED
  BY <1>1, <1>5 DEF BoardInv

LEMMA BeginSaveInv ==
    ASSUME BoardInv, NEW text \in Texts \cup {NoText}, BeginSave(text),
           text = draft \/ text = NoText
    PROVE  BoardInv'
<1>1. saves = <<>> /\ WordsInv
  BY Zenon DEF BeginSave, BoardInv, FlagsInv
<1>2. /\ saves' = Append(saves, Save(text, draftRevision, "pending"))
      /\ UNCHANGED <<draft, draftRevision, savedState, stored, typed>>
  BY DEF BeginSave, SameDraft
<1>3. saves' = <<Save(text, draftRevision, "pending")>>
  BY <1>1, <1>2, SMTT(30)
<1>4. WordsInv'
  BY <1>1, <1>2, <1>3 DEF WordsInv, RevisionTells, Save, Saves
<1>5. saves' # <<>>
  BY <1>3
<1>6. FlagsInv'
  BY <1>5, Zenon DEF BeginSave, BoardInv, FlagsInv
<1> QED
  BY <1>4, <1>6 DEF BoardInv

LEMMA StoreEntryInv ==
    ASSUME BoardInv, NEW i \in DOMAIN saves, StoreEntry(i)
    PROVE  BoardInv'
<1>1. WordsInv /\ UNCHANGED <<draft, draftRevision, savedState, typed>>
  BY DEF StoreEntry, BoardInv
<1>2. PICK st \in {"stored", "failed"} :
        /\ saves' = [saves EXCEPT ![i].state = st]
        /\ stored \subseteq stored'
        /\ st = "stored" => stored' = stored \cup ({saves[i].text} \cap Texts)
  BY Zenon DEF StoreEntry
<1>3. saves[i] \in Saves /\ saves[i].text \in Texts \cup {NoText}
  <2>1. saves[i] \in Saves
    BY <1>1 DEF WordsInv
  <2> QED
    BY <2>1 DEF Saves
<1>4. /\ saves' \in Seq(Saves) /\ Len(saves') = Len(saves) /\ DOMAIN saves' = DOMAIN saves
      /\ saves'[i] = [saves[i] EXCEPT !.state = st]
      /\ \A j \in DOMAIN saves \ {i} : saves'[j] = saves[j]
  <2> DEFINE new == [saves[i] EXCEPT !.state = st]
  <2>1. new \in Saves
    BY <1>3 DEF Saves
  <2>2. saves \in Seq(Saves) /\ saves' = [saves EXCEPT ![i] = new]
    BY <1>1, <1>2 DEF WordsInv
  <2> HIDE DEF new
  <2>3. /\ saves' \in Seq(Saves) /\ Len(saves') = Len(saves) /\ DOMAIN saves' = DOMAIN saves
        /\ saves'[i] = new /\ \A j \in DOMAIN saves \ {i} : saves'[j] = saves[j]
    BY <2>1, <2>2
  <2> QED
    BY <2>3 DEF new
<1>5. WordsInv'
  <2>1. RevisionTells(saves[i])
    BY <1>1 DEF WordsInv
  <2>2. /\ saves'[i].text = saves[i].text /\ saves'[i].revision = saves[i].revision
        /\ saves'[i].state = st
    BY <1>4, <1>3 DEF Saves
  <2>3. RevisionTells(saves[i])'
    BY <1>1, <1>2, <1>3, <2>1, <2>2, ZenonT(40) DEF RevisionTells
  <2>4. \A j \in DOMAIN saves \ {i} : RevisionTells(saves[j])'
    BY <1>1, <1>2, <1>4, ZenonT(40) DEF WordsInv, RevisionTells
  <2> QED
    BY <1>1, <1>2, <1>4, <2>3, <2>4, ZenonT(40) DEF WordsInv
<1>6. saves # <<>> /\ saves' # <<>>
  BY <1>1, <1>4 DEF WordsInv
<1>7. FlagsInv'
  BY <1>6, Zenon DEF StoreEntry, BoardInv, FlagsInv
<1> QED
  BY <1>5, <1>7 DEF BoardInv

LEMMA ResumeInv ==
    ASSUME BoardInv, NEW i \in DOMAIN saves, Resume(i)
    PROVE  BoardInv'
<1>1. WordsInv /\ UNCHANGED <<stored, typed>> /\ saves' = OtherSaves(i)
  BY DEF Resume, BoardInv
<1>2. i = 1 /\ Len(saves) = 1
  BY <1>1, SMTT(30) DEF WordsInv
<1>3. saves' = <<>>
  BY <1>1, <1>2 DEF OtherSaves, WordsInv
<1>4. \/ UNCHANGED <<draft, savedState, draftRevision>>
      \/ /\ saves[i].state = "stored" /\ saves[i].text # NoText
         /\ draftRevision = saves[i].revision
         /\ draft' = Blank /\ savedState' = Blank /\ draftRevision' = draftRevision + 1
  BY ZenonT(40) DEF Resume, OnSaved
<1>5. WordsInv'
  BY <1>1, <1>3, <1>4 DEF WordsInv, RevisionTells
<1>6. FlagsInv'
  BY <1>3, Zenon DEF Resume, BoardInv, FlagsInv
<1> QED
  BY <1>5, <1>6, ZenonT(40) DEF BoardInv

LEMMA BoardStepInv == BoardInv /\ [BoardNext]_boardVars => BoardInv'
<1> SUFFICES ASSUME BoardInv, [BoardNext]_boardVars PROVE BoardInv'
  OBVIOUS
<1>1. ASSUME NEW text \in Texts \cup {Blank}, UpdateDraft(text) PROVE BoardInv'
  BY <1>1, UpdateDraftInv
<1>2. CASE Post
  <2>1. draft \in Texts \cup {NoText}
    BY <1>2 DEF Post, BoardInv, WordsInv
  <2> QED
    BY <1>2, <2>1, BeginSaveInv, ZenonT(40) DEF Post
<1>3. CASE PostBlank
  <2>1. WordsInv'
    BY <1>3, Zenon DEF PostBlank, SameDraft, BoardInv, WordsInv, RevisionTells
  <2>2. FlagsInv'
    BY <1>3, Zenon DEF PostBlank, BoardInv, FlagsInv
  <2> QED
    BY <2>1, <2>2, SMTT(30) DEF BoardInv
<1>4. CASE CreateTestEntry
  BY <1>4, BeginSaveInv DEF CreateTestEntry
<1>5. CASE SaveStep
  BY <1>5, StoreEntryInv, ResumeInv, ZenonT(40) DEF SaveStep
<1>6. CASE Recreate
  <2>1. WordsInv'
    BY <1>6 DEF Recreate, BoardInv, WordsInv
  <2>2. FlagsInv'
    BY <1>6, ZenonT(40) DEF Recreate, FlagsInv
  <2> QED
    BY <2>1, <2>2 DEF BoardInv
<1>7. CASE UNCHANGED boardVars
  <2>1. WordsInv'
    BY <1>7 DEF boardVars, BoardInv, WordsInv, RevisionTells
  <2>2. FlagsInv'
    BY <1>7, Zenon DEF boardVars, BoardInv, FlagsInv
  <2> QED
    BY <2>1, <2>2 DEF BoardInv
<1> QED
  BY <1>1, <1>2, <1>3, <1>4, <1>5, <1>6, <1>7, ZenonT(40) DEF BoardNext, BoardInput

(***************************************************************************)
(* Whatever the user types while saves succeed, fail or are cut off by the *)
(* end of the process, the text typed last is in the draft or in the node, *)
(* and no two saves overlap (BoardViewModel.post and save).                *)
(***************************************************************************)
THEOREM LastWordsAreKept == BoardSpec => []LastWordsKept
<1>1. BoardInv => LastWordsKept
  BY Zenon DEF BoardInv, WordsInv, FlagsInv, LastWordsKept, OneSave, BoardTypeOK
<1> QED
  BY <1>1, BoardInitInv, BoardStepInv, PTL DEF BoardSpec

-----------------------------------------------------------------------------
(* The identity.  IdentityKept does not say why a new identity is only     *)
(* ever made by a device that has used none; the invariant below does by   *)
(* following the start-up.                                                 *)

\* Where a start-up has come to, the file and the identity are in step.
StageInv ==
    /\ stage \in {"persist", "write"} => identityFile.state # "whole"
    /\ stage \in {"open", "ready"} => identityFile.state = "whole" /\ identityFile.identity = identity
    /\ stage = "write" => keys # 0 /\ (losses = 0 => alias = keys)
    /\ identityFile.state = "whole" => identityFile.key # 0

IdentityInv == IdentityKept /\ StageInv

\* The Keystore holds the last key it made, or none.
AliasInv == alias = 0 \/ alias = keys

\* A device starts with no file, no key and no node.
LEMMA IdentityInitInv == IdentityInit => IdentityInv /\ AliasInv
BY SMTT(30) DEF IdentityInit, IdentityInv, AliasInv, IdentityKept, IdentityTypeOK, StageInv, NoFile, Stages

\* Every step of the start-up, a death and the loss of the key keep the invariant.
LEMMA IdentityStepInv == IdentityInv /\ AliasInv /\ [IdentityNext]_identityVars => IdentityInv' /\ AliasInv'
<1> SUFFICES ASSUME IdentityInv, AliasInv, [IdentityNext]_identityVars
             PROVE  IdentityInv' /\ AliasInv'
  BY Zenon
<1> USE DEF IdentityInv, AliasInv, IdentityKept, IdentityTypeOK, StageInv, Stages
<1>1. CASE StartProcess
  BY <1>1, ZenonT(40) DEF StartProcess
<1>2. CASE LoadFile
  BY <1>2 DEF LoadFile, TakeKey, Key
<1>3. CASE LoadTorn
  BY <1>3, ZenonT(40) DEF LoadTorn
<1>4. CASE Generate
  BY <1>4, SMTT(30) DEF Generate, Generated
<1>5. CASE StartWrite
  BY <1>5, SMTT(30) DEF StartWrite, TakeKey, Key, Torn
<1>6. CASE FinishWrite
  BY <1>6, ZenonT(40) DEF FinishWrite, Envelope
<1>7. CASE FailWrite
  BY <1>7, ZenonT(40) DEF FailWrite, NoFile
<1>8. CASE OpenNode
  BY <1>8, ZenonT(40) DEF OpenNode
<1>9. CASE StartupFails
  BY <1>9, ZenonT(40) DEF StartupFails
<1>10. CASE ProcessDies
  BY <1>10, ZenonT(40) DEF ProcessDies
<1>11. CASE LoseKey
  BY <1>11, SMTT(30) DEF LoseKey
<1>12. CASE UNCHANGED identityVars
  BY <1>12 DEF identityVars
<1> QED
  BY <1>1, <1>2, <1>3, <1>4, <1>5, <1>6, <1>7, <1>8, <1>9, <1>10, <1>11, <1>12, ZenonT(40)
  DEF IdentityNext, Startup

(***************************************************************************)
(* However often processes die, writes fail and keys are lost, the nodes   *)
(* of this device have one identity, the one loadOrCreate has persisted.   *)
(***************************************************************************)
THEOREM IdentityIsKept == IdentitySpec => []IdentityKept
<1>1. IdentityInv /\ AliasInv => IdentityKept
  BY DEF IdentityInv
<1> QED
  BY <1>1, IdentityInitInv, IdentityStepInv, PTL DEF IdentitySpec

-----------------------------------------------------------------------------
(* The app. *)

LEMMA BoardSteps == [AppNext]_appVars => [BoardNext]_boardVars
  BY DEF AppNext, Launch, StartupStep, Use, Proceed, Die, KeyGone, BoardNext, appVars

LEMMA IdentitySteps == [AppNext]_appVars => [IdentityNext]_identityVars
  BY DEF AppNext, Launch, StartupStep, Use, Proceed, Die, KeyGone, IdentityNext, appVars

(***************************************************************************)
(* The app runs the board and the start-up as they are specified alone:    *)
(* showing the board only when the start-up is done, and ending both with  *)
(* the process, adds nothing to either (RacnetApplication, MainActivity).  *)
(***************************************************************************)
LEMMA AppRunsBoth == AppSpec => BoardSpec /\ IdentitySpec
  BY BoardSteps, IdentitySteps, PTL DEF AppSpec, AppInit, BoardSpec, IdentitySpec

\* Over all lives of the process the last words of the user are kept.
THEOREM AppKeepsWords == AppSpec => []LastWordsKept
  BY AppRunsBoth, LastWordsAreKept, PTL

\* Over all lives of the process the device has one identity.
THEOREM AppKeepsIdentity == AppSpec => []IdentityKept
  BY AppRunsBoth, IdentityIsKept, PTL

=============================================================================
