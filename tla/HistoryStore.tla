---------------------------- MODULE HistoryStore ----------------------------
(***************************************************************************)
(* The history file of a session, the stores processes have open on it,    *)
(* and what finalization writes: JsonlHistoryStore over                    *)
(* InMemoryHistoryStore, MarkdownNotepadStore and FinalizationService.     *)
(*                                                                         *)
(* A line of the file carries the sequence its writer gave it.  A write    *)
(* that is cut off leaves a torn line, or a whole one without its end, to  *)
(* which any later write is glued.  Nothing locks the file: two processes  *)
(* may have it open.  A store lives for one operation, and a failed append *)
(* ends the operation: no node of the graph catches it.                    *)
(*                                                                         *)
(* A notepad store reads its file when it is made and from then on writes  *)
(* the whole file from its memory.  It is made with the workflow of an     *)
(* operation; the factory of the application passes none and leaves the    *)
(* workflow its default, in memory and without notes (Notes = {}).         *)
(***************************************************************************)
EXTENDS Naturals, Sequences, FiniteSets, SequencesExt

CONSTANTS
  Processes,   \* stores on the file, one per process
  Ids,         \* record_id of results, handoffs, reports, reviews
  Contents,    \* what a record may say
  Final,       \* final_result_id of the task
  Notes,       \* approved_notepad of its finalization: one entry for each note_id
  MaxLines,    \* bound: lines of the file
  MaxFaults    \* bound: crashes, failed writes, truncations

ASSUME HistoryBounds == Final \notin Ids /\ MaxLines \in Nat /\ MaxFaults \in Nat

VARIABLES
  file,       \* lines of the file: [seq, id, content, whole, ended]
  store,      \* per process: [open, memory] and (history) what it was resumed for
  snap,       \* history reference of the last checkpoint: cursor, and (history) its records
  notepad,    \* notes in the file of the notepad
  notes,      \* per process: notes in the memory of its notepad store
  acked,      \* history: records whose append returned
  closing,    \* per process: notes finalization has still to write
  done,       \* history: finalization has returned its report
  abandoned,  \* history: notes a finalization left unwritten after another had returned
  shrunk,     \* history: the file was replaced by a prefix of itself
  rewritten,  \* history: a place of the file has been written a second time
  faults      \* faults so far

notepads == <<notepad, notes, abandoned>>
vars == <<file, store, snap, notepads, acked, closing, done, shrunk, rewritten, faults>>

Closed == [open |-> FALSE, memory |-> << >>, promised |-> << >>]

\* The records of a file that was parsed.
Record(line) == [id |-> line.id, content |-> line.content]
Records(lines) == [i \in DOMAIN lines |-> Record(lines[i])]

Init ==
  /\ file = << >> /\ store = [p \in Processes |-> Closed]
  /\ snap = [cursor |-> 0, covered |-> << >>]
  /\ notepad = {} /\ notes = [p \in Processes |-> {}] /\ abandoned = {}
  /\ acked = {} /\ closing = [p \in Processes |-> {}]
  /\ done = FALSE /\ shrunk = FALSE /\ rewritten = FALSE /\ faults = 0

-----------------------------------------------------------------------------
\* Bug for comparison: the sequences are not looked at.
LoadsInAnyOrder(lines) == \A i \in DOMAIN lines : lines[i].whole

\* Bug for comparison: a line that begins with a record is taken for that record.
LoadsBeginnings(lines) == \A i \in DOMAIN lines : lines[i].seq = i

\* _load_existing raises unless every line is a record and the sequences are 1, 2, ...;
\* the memory it fills refuses an id that comes back with another content.
Loads(lines) ==
  /\ \A i \in DOMAIN lines : lines[i].whole /\ lines[i].seq = i
  /\ \A i, j \in DOMAIN lines : lines[i].id = lines[j].id => lines[i].content = lines[j].content

Known(p, id) == \E i \in DOMAIN store[p].memory : store[p].memory[i].id = id
Agrees(p, r) == \E i \in DOMAIN store[p].memory : store[p].memory[i] = r

\* cursor.
Cursor(p) == Len(store[p].memory)

\* Text is added at the end of the file, be it in the middle of a line.
Glued(lines, line) ==
  IF lines # << >> /\ ~Last(lines).ended
    THEN Append(Front(lines), [Last(lines) EXCEPT !.whole = FALSE, !.ended = line.ended])
    ELSE Append(lines, line)

Line(p, r) ==
  [seq |-> Cursor(p) + 1, id |-> r.id, content |-> r.content, whole |-> TRUE, ended |-> TRUE]

\* The line is in the file, or as much of it as the writer got to.
Put(line) ==
  /\ Len(file) < MaxLines /\ file' = Glued(file, line)
  /\ rewritten' = (rewritten \/ shrunk \/ line.seq <= Len(file))

Fault == faults < MaxFaults /\ faults' = faults + 1

-----------------------------------------------------------------------------
\* A notepad store is made, which reads the file as it is now.
LoadNotes(p) == notes' = [notes EXCEPT ![p] = notepad] /\ UNCHANGED <<notepad, abandoned>>

\* A new store, for a new operation.
Open(p) ==
  /\ ~store[p].open /\ Loads(file)
  /\ store' = [store EXCEPT ![p] = [Closed EXCEPT !.open = TRUE, !.memory = Records(file)]]
  /\ LoadNotes(p)
  /\ UNCHANGED <<file, snap, acked, closing, done, shrunk, rewritten, faults>>

\* Bug for comparison: whatever is there is taken for the history of the snapshot.
RequireNothing(lines) == TRUE

\* require_cursor.
RequireCursor(lines) == Len(Records(lines)) >= snap.cursor

\* MultiAgentWorkflow.resume: a new store that has to reach the cursor of the snapshot.
Resume(p) ==
  /\ ~store[p].open /\ Loads(file) /\ RequireCursor(file)
  /\ store' = [store EXCEPT ![p] = [open |-> TRUE, memory |-> Records(file),
                                    promised |-> snap.covered]]
  /\ LoadNotes(p)
  /\ UNCHANGED <<file, snap, acked, closing, done, shrunk, rewritten, faults>>

Close(p) ==
  /\ store[p].open /\ closing[p] = {}
  /\ store' = [store EXCEPT ![p] = Closed] /\ notes' = [notes EXCEPT ![p] = {}]
  /\ UNCHANGED <<file, snap, notepad, abandoned, acked, closing, done, shrunk, rewritten, faults>>

\* The file first, then the memory.
Write(p, r) ==
  /\ Put(Line(p, r))
  /\ store' = [store EXCEPT ![p].memory = Append(@, r)]
  /\ acked' = acked \cup {r}

\* append: a record that is known is only acknowledged when it says the same.
AppendRecord(p, r) ==
  /\ store[p].open /\ closing[p] = {}
  /\ IF Known(p, r.id)
       THEN Agrees(p, r) /\ acked' = acked \cup {r} /\ UNCHANGED <<file, store, rewritten>>
       ELSE Write(p, r)
  /\ UNCHANGED <<snap, notepads, closing, done, shrunk, faults>>

\* _workflow_snapshot: the checkpoint of a call refers to the history so far.
Snapshot(p) ==
  /\ store[p].open /\ closing[p] = {}
  /\ snap' = [cursor |-> Cursor(p), covered |-> store[p].memory]
  /\ UNCHANGED <<file, store, notepads, acked, closing, done, shrunk, rewritten, faults>>

-----------------------------------------------------------------------------
(* FinalizationService.finalize: the record, then the notes one by one.    *)

Finalize(p, content) ==
  /\ store[p].open /\ closing[p] = {}
  /\ IF Known(p, Final)
       THEN /\ Agrees(p, [id |-> Final, content |-> content])
            /\ UNCHANGED <<file, store, acked, rewritten>>
       ELSE Write(p, [id |-> Final, content |-> content])
  /\ closing' = [closing EXCEPT ![p] = Notes]
  /\ done' = (done \/ Notes = {})
  /\ UNCHANGED <<snap, notepads, shrunk, faults>>

\* Bug for comparison: the file is replaced by the new entry.
PersistEntry(p, note) == {note}

\* _persist: what a notepad file holds once it is replaced from memory, whatever
\* others have written to it since that memory was read.
Persist(p, note) == notes[p] \cup {note}

\* MarkdownNotepadStore.append: the note joins the memory, and the file is replaced.
WriteNote(p, note) ==
  /\ note \in closing[p]
  /\ notes' = [notes EXCEPT ![p] = @ \cup {note}]
  /\ notepad' = Persist(p, note)
  /\ closing' = [closing EXCEPT ![p] = @ \ {note}]
  /\ done' = (done \/ closing'[p] = {})
  /\ UNCHANGED <<file, store, snap, abandoned, acked, shrunk, rewritten, faults>>

-----------------------------------------------------------------------------
\* The process is lost, or a write of it fails and ends its operation.
Lose(p) ==
  /\ store[p].open /\ Fault
  /\ store' = [store EXCEPT ![p] = Closed] /\ notes' = [notes EXCEPT ![p] = {}]
  /\ closing' = [closing EXCEPT ![p] = {}]
  /\ abandoned' = abandoned \cup {note \in closing[p] : done}
  /\ UNCHANGED <<snap, notepad, acked, done, shrunk>>

\* Between two writes, or before the first byte of one.
Crash(p) == Lose(p) /\ UNCHANGED <<file, rewritten>>

\* In a write: part of the line is there, or all but its end, or (fsync) all of it.
CrashInWrite(p, r, whole, ended) ==
  /\ Lose(p) /\ closing[p] = {} /\ ~Known(p, r.id)
  /\ Put([Line(p, r) EXCEPT !.whole = whole, !.ended = ended])

\* Someone restores an older copy of the file, while no process is there.
Shrink ==
  /\ Fault /\ \A p \in Processes : ~store[p].open
  /\ file # << >> /\ file' = Front(file)
  /\ shrunk' = TRUE
  /\ UNCHANGED <<store, snap, notepads, acked, closing, done, rewritten>>

RecordsOf(ids) == [id : ids, content : Contents]

Next ==
  \/ \E p \in Processes :
       \/ Open(p) \/ Resume(p) \/ Close(p) \/ Snapshot(p) \/ Crash(p)
       \/ \E r \in RecordsOf(Ids) : AppendRecord(p, r)
       \/ \E r \in RecordsOf(Ids \cup {Final}) :
            CrashInWrite(p, r, FALSE, FALSE) \/ CrashInWrite(p, r, TRUE, FALSE)
              \/ CrashInWrite(p, r, TRUE, TRUE)
       \/ \E c \in Contents : Finalize(p, c)
       \/ \E note \in Notes : WriteNote(p, note)
  \/ Shrink

Spec == Init /\ [][Next]_vars

-----------------------------------------------------------------------------
(* Properties.                                                             *)

\* Two stores that disagree on a record both count as its place make the file one that
\* no later operation loads: a fork is noticed, never merged.
ForksAreNoticed ==
  \A p, q \in Processes :
    (\E i \in DOMAIN store[p].memory \cap DOMAIN store[q].memory :
        store[p].memory[i] # store[q].memory[i])
      => ~Loads(file)

\* A file that loads has every record whose append returned, after any crash, torn write
\* or second writer.
AcknowledgedIsKept == ~shrunk /\ Loads(file) => \A r \in acked : r \in ToSet(Records(file))

\* Finalization that has returned, in this attempt or in a replay of it, left its result
\* in any file that loads.
FinalResultIsWritten ==
  done /\ ~shrunk /\ Loads(file) => \E r \in ToSet(Records(file)) : r.id = Final

\* What was reported as written is there for whoever reads the file later.
ReportedIsKept == AcknowledgedIsKept /\ FinalResultIsWritten

\* Finalizations of one task in several processes overwrite one another's notepad, each
\* from what it read when it was opened.  Once one of them has returned, a note is missing
\* from the file only while another still has it to write, or because a later one, begun
\* on an older copy, was lost before it wrote it.
MissingNotesAreOwed ==
  done => Notes \ notepad \subseteq abandoned \cup UNION {closing[p] : p \in Processes}

\* A store accepted for a resume starts with the records its checkpoint had seen, also
\* when the file was cut in between; unless a place of the file was written twice, for
\* require_cursor counts records and does not compare them.
ResumeFindsItsHistory ==
  \A p \in Processes :
    store[p].open /\ ~rewritten => IsPrefix(store[p].promised, store[p].memory)

=============================================================================
