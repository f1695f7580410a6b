------------------------------ MODULE Journal ------------------------------
(***************************************************************************)
(* The append-only journal behind a persistent EntryStore                  *)
(* (core/src/store/journal.rs and EntryStore::insert), on a disk that      *)
(* forgets what was not synced.                                            *)
(*                                                                         *)
(* The file is kept as what its reader tells apart: how much of the header *)
(* is there, the complete records, how many bytes follow them, and the     *)
(* length that open reads from those if they are long enough to hold one.  *)
(* Sizes are in units of the model.                                        *)
(*                                                                         *)
(* Every open and every append is one action; the step at which it fails   *)
(* is chosen freely, and a crash in the middle of it is such a failure     *)
(* followed by Kill or PowerLoss.                                          *)
(***************************************************************************)
EXTENDS Integers, FiniteSets, Sequences, Functions

CONSTANTS
    Procs,              \* processes that may open the journal
    Entries,            \* valid signed entries
    Size,               \* entry -> size of its bytes
    PrefixSize,         \* the size of the length in front of them
    HeaderSize,         \* the size of MAGIC
    MaxRecord,          \* MAX_RECORD
    MaxBytes,           \* MAX_BYTES
    MaxEntries,         \* MAX_ENTRIES
    FsyncPersistsName,  \* the disk: syncing a file also persists its name
    SizeMayLead         \* the disk: a file's size may be persisted before its bytes

ASSUME JournalAssumption ==
    /\ HeaderSize \in Nat \ {0}
    /\ PrefixSize \in Nat \ {0}
    /\ Size \in [Entries -> Nat \ {0}]
    /\ {MaxRecord, MaxBytes, MaxEntries} \subseteq Nat
    /\ HeaderSize <= MaxBytes
    /\ {FsyncPersistsName, SizeMayLead} \subseteq BOOLEAN

VARIABLES
    file,      \* the contents every process sees
    durable,   \* the contents that may be on the disk
    named,     \* the directory entry is on the disk
    opened,    \* processes with the journal open; one that is holds the lock
    mem,       \* process -> entries of its in-memory index
    len        \* process -> Journal.len, in records

vars == <<file, durable, named, opened, mem, len>>

Contents ==
    [hdr : 0..HeaderSize, recs : Seq(Entries), tail : Nat, size : Nat]

\* A file just created; one that is absent opens the same way.
Empty == [hdr |-> 0, recs |-> <<>>, tail |-> 0, size |-> 0]

WithHeader(n) == [Empty EXCEPT !.hdr = n]

WithRecords(rs) == [hdr |-> HeaderSize, recs |-> rs, tail |-> 0, size |-> 0]

RecordSize(e) == PrefixSize + Size[e]

\* The records rs and the first n bytes of one more, for e.
WithPart(rs, e, n) ==
    [hdr |-> HeaderSize, recs |-> rs, tail |-> n, size |-> IF n < PrefixSize THEN 0 ELSE Size[e]]

\* Where each record ends, counted from the end of the header.
Ends(rs) ==
    LET end[n \in 0..Len(rs)] == IF n = 0 THEN 0 ELSE end[n - 1] + RecordSize(rs[n])
    IN  end

Bytes(c) == c.hdr + Ends(c.recs)[Len(c.recs)] + c.tail

Init ==
    /\ file = Empty
    /\ durable = {Empty}
    /\ named = FALSE
    /\ opened = {}
    /\ mem = [p \in Procs |-> {}]
    /\ len = [p \in Procs |-> 0]

-----------------------------------------------------------------------------
(***************************************************************************)
(* The disk.  Of the contents written since the last sync, starting from   *)
(* base, any may be there; where sizes may lead, so may zeros in place of  *)
(* the bytes added to base, which open reads as a length of zero.          *)
(***************************************************************************)
Zeroed(base, c) == [base EXCEPT !.tail = Bytes(c) - Bytes(base), !.size = 0]

Unsynced(base, cs) ==
    LET grown == {c \in cs : SizeMayLead /\ Bytes(c) > Bytes(base)}
    IN  durable \cup cs \cup {Zeroed(base, c) : c \in grown}

AfterPowerLoss == durable \cup (IF named THEN {} ELSE {Empty})

\* sync_all on the file.
Sync(c) ==
    /\ file' = c
    /\ durable' = {c}
    /\ named' = (named \/ FsyncPersistsName)

-----------------------------------------------------------------------------
\* What open accepts: a header or a prefix of one, records within the limits,
\* and at most an incomplete one at the end, whose length, if it is there, is
\* within them too.
Readable(c) ==
    /\ c.hdr < HeaderSize => c.tail = 0
    /\ Bytes(c) <= MaxBytes
    /\ \A i \in DOMAIN c.recs : Size[c.recs[i]] <= MaxRecord
    /\ c.tail >= PrefixSize => c.size \in 1..MaxRecord
    /\ Len(c.recs) <= MaxEntries

\* Mutant of Lockable: the file is not locked.
AlwaysLockable == TRUE

Lockable == opened = {}

Loaded(p) ==
    /\ opened' = opened \cup {p}
    /\ mem' = [mem EXCEPT ![p] = Range(file.recs)]
    /\ len' = [len EXCEPT ![p] = Len(file.recs)]

\* open of a new file or of one whose creation was cut short: the header is
\* written and synced, then the directory.
OpenNew(p) ==
    /\ Lockable
    /\ Readable(file)
    /\ file.hdr < HeaderSize
    /\ file' = WithHeader(HeaderSize)
    /\ durable' = {file'}
    /\ named' = TRUE
    /\ Loaded(p)

\* open of a journal: replay its records, and cut off and sync an incomplete
\* tail.  Without such a tail nothing is synced.
OpenExisting(p) ==
    /\ Lockable
    /\ Readable(file)
    /\ file.hdr = HeaderSize
    /\ \/ /\ file.tail = 0
          /\ UNCHANGED <<file, durable, named>>
       \/ /\ file.tail > 0
          /\ Sync(WithRecords(file.recs))
    /\ Loaded(p)

\* open gives up, or the process dies in it: some of the header is written,
\* or all of it is synced and the directory is not, or the tail is cut off and
\* not synced.
OpenFails ==
    /\ Lockable
    /\ Readable(file)
    /\ \/ /\ file.hdr < HeaderSize
          /\ \E n \in file.hdr..HeaderSize :
                /\ file' = WithHeader(n)
                /\ durable' = Unsynced(file, {WithHeader(k) : k \in file.hdr..n})
          /\ UNCHANGED named
       \/ /\ file.hdr < HeaderSize
          /\ Sync(WithHeader(HeaderSize))
       \/ /\ file.tail > 0
          /\ file' = WithRecords(file.recs)
          /\ durable' = Unsynced(file', {file'})
          /\ UNCHANGED named
    /\ UNCHANGED <<opened, mem, len>>

-----------------------------------------------------------------------------
Committed(p) == SubSeq(file.recs, 1, len[p])

\* Mutant of HasRoom: the length prefix of the new record is not counted.
HasSomeRoom(p, e) ==
    /\ Cardinality(mem[p]) < MaxEntries
    /\ Size[e] <= MaxRecord
    /\ Bytes(WithRecords(Committed(p))) + Size[e] <= MaxBytes

\* Mutant of HasRoom: only the file is limited, not the record.
HasRoomInFile(p, e) ==
    /\ Cardinality(mem[p]) < MaxEntries
    /\ Bytes(WithRecords(Committed(p))) + RecordSize(e) <= MaxBytes

\* The limits insert and append check before anything is written.
HasRoom(p, e) ==
    /\ Cardinality(mem[p]) < MaxEntries
    /\ Size[e] <= MaxRecord
    /\ Bytes(WithRecords(Committed(p))) + RecordSize(e) <= MaxBytes

\* Mutant of Insert: the record is made visible before it is flushed.
InsertUnflushed(p, e) ==
    /\ p \in opened
    /\ e \notin mem[p]
    /\ HasRoom(p, e)
    /\ file' = WithRecords(Append(Committed(p), e))
    /\ durable' = Unsynced(WithRecords(Committed(p)), {file'})
    /\ mem' = [mem EXCEPT ![p] = @ \cup {e}]
    /\ len' = [len EXCEPT ![p] = @ + 1]
    /\ UNCHANGED <<named, opened>>

\* insert of a new entry: cut the file back to the committed length, write
\* the record, sync, and only then index the entry.
Insert(p, e) ==
    /\ p \in opened
    /\ e \notin mem[p]
    /\ HasRoom(p, e)
    /\ Sync(WithRecords(Append(Committed(p), e)))
    /\ mem' = [mem EXCEPT ![p] = @ \cup {e}]
    /\ len' = [len EXCEPT ![p] = @ + 1]
    /\ UNCHANGED opened

\* insert fails after the file was cut back: some bytes of the record are
\* written, or all of them and the sync fails.
InsertFails(p, e) ==
    LET partial(n) == WithPart(Committed(p), e, n)
        complete   == WithRecords(Append(Committed(p), e))
    IN  /\ p \in opened
        /\ e \notin mem[p]
        /\ HasRoom(p, e)
        /\ \/ \E n \in 0..RecordSize(e) - 1 :
                /\ file' = partial(n)
                /\ durable' = Unsynced(partial(0), {partial(k) : k \in 0..n})
           \/ /\ file' = complete
              /\ durable' = Unsynced(partial(0), {partial(k) : k \in 0..RecordSize(e) - 1} \cup {complete})
        /\ UNCHANGED <<named, opened, mem, len>>

-----------------------------------------------------------------------------
\* The store is dropped or its process dies: the lock goes, the file stays as
\* every process sees it.
Kill(p) ==
    /\ p \in opened
    /\ opened' = opened \ {p}
    /\ mem' = [mem EXCEPT ![p] = {}]
    /\ len' = [len EXCEPT ![p] = 0]
    /\ UNCHANGED <<file, durable, named>>

PowerLoss ==
    /\ file' \in AfterPowerLoss
    /\ durable' = {file'}
    /\ named' = (named \/ file' # Empty)
    /\ opened' = {}
    /\ mem' = [p \in Procs |-> {}]
    /\ len' = [p \in Procs |-> 0]

Next ==
    \/ \E p \in Procs :
        \/ OpenNew(p)
        \/ OpenExisting(p)
        \/ \E e \in Entries : Insert(p, e) \/ InsertFails(p, e)
        \/ Kill(p)
    \/ OpenFails
    \/ PowerLoss

Spec == Init /\ [][Next]_vars

-----------------------------------------------------------------------------
\* The contents are well formed: header, records, an incomplete last one, in
\* the file as in what may be on the disk.
TypeOK ==
    /\ file \in Contents
    /\ durable \in SUBSET Contents
    /\ named \in BOOLEAN
    /\ opened \in SUBSET Procs
    /\ mem \in [Procs -> SUBSET Entries]
    /\ len \in [Procs -> Nat]

Survivors(c) == Range(c.recs)

\* The entries every possible disk holds, and those some possible disk holds.
Stored == {e \in Entries : \A c \in AfterPowerLoss : e \in Survivors(c)}
Limbo  == {e \in Entries : \E c \in AfterPowerLoss : e \in Survivors(c)} \ Stored

(***************************************************************************)
(* The journal keeps the promise of DurableStore: an acknowledged entry is *)
(* never lost, whatever fails or crashes afterwards, and every reopened    *)
(* store shows it.                                                         *)
(***************************************************************************)
Abstract == INSTANCE DurableStore WITH stored <- Stored, limbo <- Limbo

KeepsPromise == Abstract!Spec

(***************************************************************************)
(* A store can always be opened again: whatever an append or an open left  *)
(* behind, on the disk or in the cache, is a file open accepts ("Opens a   *)
(* durable store, recovering an incomplete final append", store/mod.rs).   *)
(* In particular append counts the file, the record and the entries as     *)
(* open will.                                                              *)
(***************************************************************************)
Reopens == \A c \in AfterPowerLoss \cup {file} : Readable(c)

(***************************************************************************)
(* The index of an open store is the committed part of its file: each      *)
(* entry once, and nothing a failed append left behind.                    *)
(***************************************************************************)
IndexMatchesFile ==
    /\ TypeOK
    /\ \A p \in opened :
          /\ len[p] <= Len(file.recs)
          /\ mem[p] = Range(Committed(p))
          /\ Cardinality(mem[p]) = len[p]

(***************************************************************************)
(* "Flush a record before making it visible in the in-memory index"        *)
(* (ADR 0017): what an open store shows is on every possible disk.  Not    *)
(* checked, because it fails: Open replays records it never flushes.       *)
(***************************************************************************)
FlushedBeforeVisible == \A p \in opened : mem[p] \subseteq Stored

(***************************************************************************)
(* "Persist the new directory entry as well as the file contents."         *)
(* (Journal::open): a store that is open is found again under its name.    *)
(* Not checked: it fails when FsyncPersistsName is FALSE.                  *)
(***************************************************************************)
NamePersisted == opened # {} => named
=============================================================================
