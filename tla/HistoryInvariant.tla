-------------------------- MODULE HistoryInvariant --------------------------
(***************************************************************************)
(* The inductive invariant behind the properties of HistoryStore.  A store *)
(* once read the file, and a file that is still in order has only grown by *)
(* what that store wrote; what the snapshot saw is where it was, in every  *)
(* part of the file that is in order.                                      *)
(***************************************************************************)
EXTENDS HistoryStore

RecordType == [id : Ids \cup {Final}, content : Contents]
LineType ==
  [seq : Nat \ {0}, id : Ids \cup {Final}, content : Contents,
   whole : BOOLEAN, ended : BOOLEAN]

StoreType == [open : BOOLEAN, memory : Seq(RecordType), promised : Seq(RecordType)]

TypeOK ==
  /\ file \in Seq(LineType) /\ Len(file) <= MaxLines
  /\ store \in [Processes -> StoreType]
  /\ snap \in [cursor : Nat, covered : Seq(RecordType)] /\ snap.cursor = Len(snap.covered)
  /\ acked \subseteq RecordType
  /\ closing \in [Processes -> SUBSET Notes]
  /\ done \in BOOLEAN /\ shrunk \in BOOLEAN /\ rewritten \in BOOLEAN
  /\ faults \in 0..MaxFaults

\* A line as a load demands it, and lines in order up to a place.
InOrder(lines, i) == lines[i].whole /\ lines[i].seq = i
OrderedTo(lines, n) == \A i \in 1..n : InOrder(lines, i)
Ordered(lines) == OrderedTo(lines, Len(lines))

\* Records that are where the file has them, as far as it is in order.
InPlace(records, lines) ==
  \A i \in DOMAIN records \cap DOMAIN lines :
    OrderedTo(lines, i) => records[i] = Record(lines[i])

\* A file in order holds whatever any store has in memory.
MemoryIsRead ==
  \A p \in Processes :
    /\ ~store[p].open => store[p].memory = << >>
    /\ Ordered(file) => IsPrefix(store[p].memory, Records(file))
    /\ ~rewritten => InPlace(store[p].memory, file)

\* So it does for the snapshot, unless it was cut.
SnapshotIsRead ==
  ~rewritten =>
    /\ InPlace(snap.covered, file)
    /\ ~shrunk /\ Ordered(file) => Len(snap.covered) <= Len(file)

\* Who writes notes has the result on record.
ClosingFollowsResult ==
  \A p \in Processes : closing[p] # {} => Known(p, Final)

IInv ==
  /\ TypeOK /\ MemoryIsRead /\ SnapshotIsRead
  /\ AcknowledgedIsKept /\ ClosingFollowsResult /\ FinalResultIsWritten
  /\ ResumeFindsItsHistory

\* The copies of the notepad: a finalization has in memory what it has written, so
\* what it writes next leaves out only what it still has to write.
NotesTypeOK ==
  /\ notepad \subseteq Notes /\ abandoned \subseteq Notes
  /\ notes \in [Processes -> SUBSET Notes] /\ closing \in [Processes -> SUBSET Notes]

WrittenIsRemembered ==
  \A p \in Processes : closing[p] # {} => Notes \subseteq notes[p] \cup closing[p]

NotesInv == NotesTypeOK /\ WrittenIsRemembered /\ MissingNotesAreOwed

=============================================================================
