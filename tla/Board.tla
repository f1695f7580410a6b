-------------------------------- MODULE Board --------------------------------
(***************************************************************************)
(* The message board's view model (android messages/BoardViewModel.kt):    *)
(* a draft the user keeps editing while an earlier version of it is being  *)
(* saved.  The view model runs on the main thread; storeEntry suspends it, *)
(* and the node stores the entry on another.                               *)
(***************************************************************************)
EXTENDS Integers, Sequences

CONSTANTS
    Texts,          \* messages that BoardMessage.encode accepts
    Blank,          \* the empty draft, which it refuses
    MaxEdits,       \* bound: how often the user edits the draft
    MaxSaves        \* bound: how many saves begin

ASSUME BoardAssumption == Blank \notin Texts /\ {MaxEdits, MaxSaves} \subseteq Nat

VARIABLES
    draft, sending, error,   \* BoardState
    draftRevision,
    savedState,              \* savedState["draft"], which outlives the process
    saves,                   \* the saves under way, each with its outcome so far
    stored,                  \* the texts the node has stored
    typed,                   \* the text the user typed last
    edits, begun             \* counters for the bounds

boardVars == <<draft, sending, error, draftRevision, savedState, saves, stored, typed, edits, begun>>

NoText == "none"

Save(text, revision, state) == [text |-> text, revision |-> revision, state |-> state]

BoardInit ==
    /\ draft = Blank /\ savedState = Blank /\ typed = Blank
    /\ sending = FALSE /\ error = FALSE
    /\ draftRevision = 0
    /\ saves = <<>> /\ stored = {}
    /\ edits = 0 /\ begun = 0

\* The user types.
UpdateDraft(text) ==
    /\ edits < MaxEdits
    /\ text # draft
    /\ draft' = text /\ savedState' = text /\ typed' = text
    /\ draftRevision' = draftRevision + 1
    /\ edits' = edits + 1
    /\ UNCHANGED <<sending, error, saves, stored, begun>>

SameDraft == UNCHANGED <<draft, draftRevision, savedState, stored, typed, edits>>

\* save, up to the suspension in storeEntry.
BeginSave(text) ==
    /\ ~sending /\ begun < MaxSaves
    /\ sending' = TRUE /\ error' = FALSE
    /\ saves' = Append(saves, Save(text, draftRevision, "pending"))
    /\ begun' = begun + 1
    /\ SameDraft

\* post, of a draft that can be encoded ...
Post == draft # Blank /\ BeginSave(draft)

\* ... and of one that cannot: save has failed when it returns.
PostBlank ==
    /\ ~sending /\ draft = Blank
    /\ error' = TRUE
    /\ SameDraft /\ UNCHANGED <<sending, saves, begun>>

CreateTestEntry == BeginSave(NoText)

\* The node stores the entry, or fails to.
StoreEntry(i) ==
    /\ saves[i].state = "pending"
    /\ \/ /\ saves' = [saves EXCEPT ![i].state = "stored"]
          /\ stored' = stored \cup ({saves[i].text} \cap Texts)
       \/ /\ saves' = [saves EXCEPT ![i].state = "failed"]
          /\ UNCHANGED stored
    /\ UNCHANGED <<draft, sending, error, draftRevision, savedState, typed, edits, begun>>

\* Mutant of OnSaved: the draft is cleared whatever became of it.
OnSavedAlways(s) ==
    IF s.text # NoText
      THEN draft' = Blank /\ savedState' = Blank /\ draftRevision' = draftRevision + 1
      ELSE UNCHANGED <<draft, savedState, draftRevision>>

\* onSaved: the draft is cleared if it is the one that was submitted.
OnSaved(s) ==
    IF s.text # NoText /\ draftRevision = s.revision
      THEN draft' = Blank /\ savedState' = Blank /\ draftRevision' = draftRevision + 1
      ELSE UNCHANGED <<draft, savedState, draftRevision>>

OtherSaves(i) == SubSeq(saves, 1, i - 1) \o SubSeq(saves, i + 1, Len(saves))

\* Mutant of Resume: an error leaves the view model sending.
ResumeNoFinally(i) ==
    /\ saves[i].state # "pending"
    /\ \/ saves[i].state = "stored" /\ OnSaved(saves[i]) /\ sending' = FALSE /\ UNCHANGED error
       \/ saves[i].state = "failed" /\ error' = TRUE
          /\ UNCHANGED <<draft, savedState, draftRevision, sending>>
    /\ saves' = OtherSaves(i)
    /\ UNCHANGED <<stored, typed, edits, begun>>

\* The coroutine of save goes on, to its end.
Resume(i) ==
    /\ saves[i].state # "pending"
    /\ \/ saves[i].state = "stored" /\ OnSaved(saves[i]) /\ UNCHANGED error
       \/ saves[i].state = "failed" /\ error' = TRUE
          /\ UNCHANGED <<draft, savedState, draftRevision>>
    /\ sending' = FALSE
    /\ saves' = OtherSaves(i)
    /\ UNCHANGED <<stored, typed, edits, begun>>

\* The system ends the process, having taken the saved state; the view model of
\* the next one is made from it.
Recreate ==
    /\ draft' = savedState
    /\ sending' = FALSE /\ error' = FALSE
    /\ draftRevision' = 0
    /\ saves' = <<>>
    /\ UNCHANGED <<savedState, stored, typed, edits, begun>>

\* What the user does on the board, and how a save goes on.
BoardInput ==
    \/ \E text \in Texts \cup {Blank} : UpdateDraft(text)
    \/ Post \/ PostBlank \/ CreateTestEntry

SaveStep == \E i \in DOMAIN saves : StoreEntry(i) \/ Resume(i)

BoardNext == BoardInput \/ SaveStep \/ Recreate

BoardSpec == BoardInit /\ [][BoardNext]_boardVars

-----------------------------------------------------------------------------
Saves ==
    [text : Texts \cup {NoText}, revision : Nat, state : {"pending", "stored", "failed"}]

\* The fields of BoardState and of the saves under way have their types.
BoardTypeOK ==
    /\ {draft, savedState, typed} \subseteq Texts \cup {Blank}
    /\ sending \in BOOLEAN /\ error \in BOOLEAN
    /\ draftRevision \in Nat
    /\ saves \in Seq(Saves)

(***************************************************************************)
(* At most one save is under way, and the board shows that it is sending   *)
(* exactly as long ("repeated taps cannot queue duplicate saves").         *)
(***************************************************************************)
OneSave == BoardTypeOK /\ Len(saves) <= 1 /\ (sending <=> saves # <<>>)

(***************************************************************************)
(* What the user typed last is never lost: it is still the draft, in this  *)
(* process or the next, or the node has stored it.  Saves of earlier       *)
(* versions, failures and restarts come in between ("Clear a submitted     *)
(* draft only if its revision has not changed while the write was          *)
(* pending", ADR 0019).  That saves never overlap is part of it.           *)
(***************************************************************************)
LastWordsKept ==
    /\ OneSave
    /\ \/ savedState = typed
       \/ savedState = Blank /\ typed \in stored
    /\ draft = savedState

(***************************************************************************)
(* The board never stays in the sending state, whether the save succeeds   *)
(* or not: posting becomes possible again.                                 *)
(***************************************************************************)
SendingEnds == sending ~> ~sending
=============================================================================
