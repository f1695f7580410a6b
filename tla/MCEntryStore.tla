---------------------------- MODULE MCEntryStore ----------------------------
(* Entries for the run of EntryStore: small ones, ones of which two or     *)
(* three fill a batch, the largest that the door lets in and the next.     *)
EXTENDS EntryStore

MCEntries == 0 .. NumItems + IdsPerKey - 1

MCPayload ==
    LET sizes == <<16270, 0, 63366, 16271, 63367, 300, 16270, 32654, 63000, 16270>>
    IN  [e \in MCEntries |-> sizes[(e % Len(sizes)) + 1]]

MCInts == [e \in MCEntries |-> 10]
=============================================================================
