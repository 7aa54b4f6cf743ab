---------------------------- MODULE RecordProofs ----------------------------
(* What is on record, and what it rests on: the safety of the history file *)
(* (HistoryStore) and of the evidence that the runs of a task take from    *)
(* its results (EvidenceChain), for any value of their constants.  In both *)
(* parts every action keeps the invariant, which implies the properties    *)
(* MCHistory and MCEvidence check.                                         *)
(*                                                                         *)
(* History: a write is seen twice, what it does to the lines of the file,  *)
(* whoever writes (GluedFacts, FileGrows, RecordsStay), and what the       *)
(* writer makes of it in memory (MemoryGrows, WriteKeeps).                 *)
(*                                                                         *)
(* Evidence: a step of a run leaves the results and only adds to what is   *)
(* fetched (RunGoesOn); what enters the evidence (ObservingKeeps,          *)
(* ImportIsSound), what the summary makes of it (ResultIsSound) and what   *)
(* the gate says (GateReports) are looked at one by one.                   *)
EXTENDS HistoryInvariant, EvidenceInvariant, SequenceTheorems, WellFoundedInduction, TLAPS

-----------------------------------------------------------------------------
(* Lines and records.                                                      *)

\* A prefix, element by element.
LEMMA PrefixMeans ==
  ASSUME NEW S, NEW s \in Seq(S), NEW t \in Seq(S)
  PROVE  IsPrefix(s, t) <=> Len(s) <= Len(t) /\ \A i \in 1..Len(s) : s[i] = t[i]
<1>1. CASE Len(s) <= Len(t)
  <2>1. SubSeq(s, 1, Len(s)) = s
    BY SubSeqFull
  <2>2. /\ SubSeq(t, 1, Len(s)) \in Seq(S) /\ Len(SubSeq(t, 1, Len(s))) = Len(s)
        /\ \A i \in 1..Len(s) : SubSeq(t, 1, Len(s))[i] = t[i]
    BY <1>1
  <2>3. s = SubSeq(t, 1, Len(s)) <=> \A i \in 1..Len(s) : s[i] = t[i]
    BY <2>2, SeqEqual
  <2> QED
    BY <1>1, <2>1, <2>3 DEF IsPrefix
<1>2. CASE ~(Len(s) <= Len(t))
  BY <1>2 DEF IsPrefix
<1> QED
  BY <1>1, <1>2

\* The records of a file, place by place.
LEMMA RecordsFacts ==
  ASSUME NEW lines \in Seq(LineType)
  PROVE  /\ Records(lines) \in Seq(RecordType) /\ Len(Records(lines)) = Len(lines)
         /\ \A i \in 1..Len(lines) : Records(lines)[i] = Record(lines[i])
<1>1. ASSUME NEW i \in 1..Len(lines) PROVE Record(lines[i]) \in RecordType
  <2>1. lines[i] \in LineType
    OBVIOUS
  <2> QED
    BY <2>1 DEF Record, RecordType, LineType
<1>2. Records(lines) = [i \in 1..Len(lines) |-> Record(lines[i])] /\ Len(lines) \in Nat
  BY DEF Records
<1> QED
  BY <1>1, <1>2

\* A sequence that is a prefix stays one when the other grows.
LEMMA PrefixGrows ==
  ASSUME NEW S, NEW s \in Seq(S), NEW r \in S
  PROVE  /\ Append(s, r) \in Seq(S) /\ Len(Append(s, r)) = Len(s) + 1
         /\ \A i \in 1..Len(s) : Append(s, r)[i] = s[i]
         /\ Append(s, r)[Len(s) + 1] = r
OBVIOUS

LEMMA EmptyIsPrefix ==
  ASSUME NEW S, NEW s \in Seq(S)
  PROVE  IsPrefix(<< >>, s)
<1>1. << >> \in Seq(S) /\ Len(<< >>) = 0 /\ Len(s) \in Nat
  OBVIOUS
<1>2. Len(<< >>) <= Len(s) /\ \A i \in 1..Len(<< >>) : FALSE
  BY <1>1
<1> QED
  BY <1>1, <1>2, PrefixMeans

LEMMA PrefixOfGrown ==
  ASSUME NEW S, NEW s \in Seq(S), NEW t \in Seq(S), NEW r \in S, IsPrefix(s, t)
  PROVE  IsPrefix(s, Append(t, r))
<1>1. Len(s) \in Nat /\ Len(t) \in Nat /\ Len(s) <= Len(t) /\ \A i \in 1..Len(s) : s[i] = t[i]
  BY PrefixMeans
<1>2. /\ Append(t, r) \in Seq(S) /\ Len(Append(t, r)) = Len(t) + 1
      /\ \A i \in 1..Len(t) : Append(t, r)[i] = t[i]
  BY PrefixGrows
<1>3. Len(s) <= Len(Append(t, r)) /\ \A i \in 1..Len(s) : s[i] = Append(t, r)[i]
  BY <1>1, <1>2
<1> QED
  BY <1>2, <1>3, PrefixMeans

\* All but the last.
LEMMA FrontFacts ==
  ASSUME NEW S, NEW s \in Seq(S), s # << >>
  PROVE  /\ Len(s) \in Nat /\ Len(s) >= 1 /\ Last(s) \in S
         /\ Front(s) \in Seq(S) /\ Len(Front(s)) = Len(s) - 1
         /\ \A i \in 1..(Len(s) - 1) : Front(s)[i] = s[i]
<1>1. Len(s) \in Nat /\ Len(s) >= 1 /\ DOMAIN s = 1..Len(s)
  OBVIOUS
<1>2. Last(s) \in S
  BY <1>1 DEF Last
<1>3. /\ SubSeq(s, 1, Len(s) - 1) \in Seq(S)
      /\ Len(SubSeq(s, 1, Len(s) - 1)) = Len(s) - 1
      /\ \A i \in 1..(Len(s) - 1) : SubSeq(s, 1, Len(s) - 1)[i] = s[i]
  BY <1>1
<1> QED
  BY <1>1, <1>2, <1>3 DEF Front

\* A file grows by a line, or its last line is spoilt.
Extended(lines, line, new) ==
  /\ Len(new) = Len(lines) + 1 /\ new[Len(lines) + 1] = line
  /\ \A i \in 1..Len(lines) : new[i] = lines[i]

LastSpoilt(lines, new) ==
  /\ Len(new) = Len(lines) /\ Len(lines) >= 1 /\ ~new[Len(lines)].whole
  /\ \A i \in 1..(Len(lines) - 1) : new[i] = lines[i]

LEMMA GluedFacts ==
  ASSUME NEW lines \in Seq(LineType), NEW line \in LineType
  PROVE  /\ Glued(lines, line) \in Seq(LineType)
         /\ \/ Extended(lines, line, Glued(lines, line))
            \/ LastSpoilt(lines, Glued(lines, line))
<1>1. CASE lines # << >> /\ ~Last(lines).ended
  <2> DEFINE end == [Last(lines) EXCEPT !.whole = FALSE, !.ended = line.ended]
  <2>1. /\ Len(lines) \in Nat /\ Len(lines) >= 1 /\ Last(lines) \in LineType
        /\ Front(lines) \in Seq(LineType) /\ Len(Front(lines)) = Len(lines) - 1
        /\ \A i \in 1..(Len(lines) - 1) : Front(lines)[i] = lines[i]
    BY <1>1, FrontFacts
  <2>2. end \in LineType /\ ~end.whole
    BY <2>1 DEF LineType
  <2>3. Glued(lines, line) = Append(Front(lines), end)
    BY <1>1 DEF Glued
  <2> HIDE DEF end
  <2> QED
    BY <2>1, <2>2, <2>3, PrefixGrows DEF LastSpoilt
<1>2. CASE ~(lines # << >> /\ ~Last(lines).ended)
  <2>1. Glued(lines, line) = Append(lines, line)
    BY <1>2 DEF Glued
  <2> QED
    BY <2>1, PrefixGrows DEF Extended
<1> QED
  BY <1>1, <1>2

\* A load demands order, and that a record comes back as it was.
LEMMA LoadedIsOrdered ==
  ASSUME NEW lines \in Seq(LineType), Loads(lines)
  PROVE  Ordered(lines)
BY DEF Loads, Ordered, OrderedTo, InOrder

\* What was in order, and what was not, stays so when the file is written to; and a write
\* that leaves it in order appends a line with the right sequence.
LEMMA ExtendedOrder ==
  ASSUME NEW lines, NEW line, NEW new, Len(lines) \in Nat, Extended(lines, line, new)
  PROVE  /\ \A i \in 1..Len(lines) : OrderedTo(new, i) => OrderedTo(lines, i) /\ new[i] = lines[i]
         /\ OrderedTo(new, Len(new)) => OrderedTo(lines, Len(lines)) /\ line.seq = Len(new)
BY DEF Extended, OrderedTo, InOrder

LEMMA SpoiltOrder ==
  ASSUME NEW lines, NEW new, Len(lines) \in Nat, LastSpoilt(lines, new)
  PROVE  /\ \A i \in 1..Len(lines) : OrderedTo(new, i) => OrderedTo(lines, i) /\ new[i] = lines[i]
         /\ ~OrderedTo(new, Len(new))
<1>1. ASSUME NEW i \in 1..Len(lines), OrderedTo(new, i)
      PROVE  OrderedTo(lines, i) /\ new[i] = lines[i]
  <2>1. i # Len(lines)
    BY <1>1 DEF LastSpoilt, OrderedTo, InOrder
  <2> QED
    BY <1>1, <2>1 DEF LastSpoilt, OrderedTo, InOrder
<1>2. ~OrderedTo(new, Len(new))
  BY DEF LastSpoilt, OrderedTo, InOrder
<1> QED
  BY <1>1, <1>2

\* A write never repairs a file.
LEMMA LoadsBefore ==
  ASSUME NEW lines \in Seq(LineType), NEW line \in LineType, Loads(Glued(lines, line))
  PROVE  Loads(lines) /\ Extended(lines, line, Glued(lines, line))
<1> DEFINE new == Glued(lines, line)
<1>1. OrderedTo(new, Len(new)) /\ new \in Seq(LineType) /\ Len(lines) \in Nat
  BY LoadedIsOrdered, GluedFacts DEF Ordered
<1>2. Extended(lines, line, new)
  BY <1>1, GluedFacts, SpoiltOrder
<1>3. /\ DOMAIN lines = 1..Len(lines) /\ DOMAIN new = 1..(Len(lines) + 1)
      /\ \A i \in 1..Len(lines) : new[i] = lines[i]
  BY <1>1, <1>2 DEF Extended
<1>4. Loads(new)
  OBVIOUS
<1> HIDE DEF new
<1>5. Loads(lines)
  BY <1>1, <1>3, <1>4 DEF Loads
<1> QED
  BY <1>2, <1>5 DEF new

\* A place of a sequence that may have grown by one.
LEMMA NextPlace ==
  ASSUME NEW m \in Nat, NEW n \in Nat, n = m \/ n = m + 1, NEW i \in 1..n
  PROVE  (i \in 1..m \/ i = m + 1) /\ (i = m + 1 => i = n)
OBVIOUS

-----------------------------------------------------------------------------
(* Writing.                                                                *)

\* What a write does to the file, for everybody's memory and for the snapshot.
LEMMA FileGrows ==
  ASSUME IInv, NEW line \in LineType, Put(line)
  PROVE  /\ file' \in Seq(LineType) /\ Len(file') <= MaxLines /\ rewritten' \in BOOLEAN
         /\ \A q \in Processes :
              /\ Ordered(file') => IsPrefix(store[q].memory, Records(file'))
              /\ ~rewritten' => InPlace(store[q].memory, file')
         /\ ~rewritten' =>
              /\ ~rewritten /\ InPlace(snap.covered, file')
              /\ ~shrunk /\ Ordered(file') => Len(snap.covered) <= Len(file')
<1>0. rewritten' = (rewritten \/ shrunk \/ line.seq <= Len(file)) /\ rewritten \in BOOLEAN
  BY DEF IInv, TypeOK, Put
<1>1. /\ file \in Seq(LineType) /\ Len(file) \in Nat /\ Len(file) < MaxLines
      /\ file' = Glued(file, line) /\ MaxLines \in Nat
  BY HistoryBounds DEF IInv, TypeOK, Put
<1>2. PICK new \in Seq(LineType) :
        file' = new /\ (Extended(file, line, new) \/ LastSpoilt(file, new))
  BY <1>1, GluedFacts
<1>3. PICK m \in Nat, n \in Nat :
        /\ m = Len(file) /\ n = Len(new) /\ n <= MaxLines /\ (n = m \/ n = m + 1)
        /\ DOMAIN new = 1..n /\ DOMAIN file = 1..m
  BY <1>1, <1>2 DEF Extended, LastSpoilt
<1>4. /\ \A i \in 1..m : OrderedTo(new, i) => OrderedTo(file, i) /\ new[i] = file[i]
      /\ OrderedTo(new, n) => Ordered(file) /\ Extended(file, line, new)
  <2>1. CASE Extended(file, line, new)
    BY <1>1, <1>3, <2>1, ExtendedOrder DEF Ordered
  <2>2. CASE LastSpoilt(file, new)
    BY <1>1, <1>3, <2>2, SpoiltOrder DEF Ordered
  <2> QED
    BY <1>2, <2>1, <2>2
<1>5. ASSUME NEW i \in 1..n, OrderedTo(new, i)
      PROVE  \/ i \in 1..m /\ OrderedTo(file, i) /\ new[i] = file[i]
             \/ Ordered(file) /\ i = m + 1
  <2>1. /\ i \in 1..m \/ i = m + 1
        /\ i = m + 1 => i = n
    BY <1>3, <1>5, NextPlace
  <2> QED
    BY <1>4, <1>5, <2>1
<1>6. ASSUME NEW records \in Seq(RecordType), InPlace(records, file),
             Ordered(file) => Len(records) <= Len(file)
      PROVE  InPlace(records, new)
  <2> SUFFICES ASSUME NEW i \in DOMAIN records, i \in DOMAIN new, OrderedTo(new, i)
               PROVE  records[i] = Record(new[i])
    BY DEF InPlace
  <2>1. PICK k \in Nat : k = Len(records) /\ i \in 1..k
    OBVIOUS
  <2>2. i \in 1..n /\ (Ordered(file) => i # m + 1)
    BY <1>3, <1>6, <2>1
  <2>3. i \in DOMAIN file /\ OrderedTo(file, i) /\ new[i] = file[i]
    BY <1>3, <1>5, <2>2
  <2> QED
    BY <1>6, <2>3 DEF InPlace
<1>7. ASSUME NEW q \in Processes
      PROVE  /\ Ordered(new) => IsPrefix(store[q].memory, Records(new))
             /\ ~rewritten' => InPlace(store[q].memory, new)
  <2>1. /\ store[q].memory \in Seq(RecordType)
        /\ Ordered(file) => IsPrefix(store[q].memory, Records(file))
        /\ ~rewritten => InPlace(store[q].memory, file)
    BY DEF IInv, TypeOK, StoreType, MemoryIsRead
  <2>2. Ordered(file) => /\ Len(store[q].memory) <= Len(file)
                         /\ \A i \in 1..Len(store[q].memory) : store[q].memory[i] = Record(file[i])
    <3>1. Records(file) \in Seq(RecordType) /\ Len(Records(file)) = Len(file)
          /\ \A i \in 1..Len(file) : Records(file)[i] = Record(file[i])
      BY <1>1, RecordsFacts
    <3> QED
      BY <1>1, <2>1, <3>1, PrefixMeans
  <2>3. ASSUME Ordered(new) PROVE IsPrefix(store[q].memory, Records(new))
    <3>1. Ordered(file) /\ Extended(file, line, new)
      BY <1>3, <1>4, <2>3 DEF Ordered
    <3>2. /\ Records(new) \in Seq(RecordType) /\ Len(Records(new)) = Len(new)
          /\ \A i \in 1..Len(new) : Records(new)[i] = Record(new[i])
      BY <1>2, RecordsFacts
    <3>3. PICK k \in Nat :
            /\ k = Len(store[q].memory) /\ k <= m
            /\ \A i \in 1..k : store[q].memory[i] = Record(file[i])
      BY <1>3, <2>1, <2>2, <3>1
    <3>4. k <= n /\ \A i \in 1..k : i \in 1..m /\ i \in 1..n
      BY <1>3, <3>3
    <3>5. \A i \in 1..m : new[i] = file[i]
      BY <1>3, <3>1 DEF Extended
    <3>6. /\ Len(store[q].memory) <= Len(Records(new))
          /\ \A i \in 1..Len(store[q].memory) : store[q].memory[i] = Records(new)[i]
      BY <1>3, <3>2, <3>3, <3>4, <3>5
    <3> QED
      BY <2>1, <3>2, <3>6, PrefixMeans
  <2> QED
    BY <1>0, <1>6, <2>1, <2>2, <2>3
<1>8. ASSUME ~rewritten'
      PROVE  /\ ~rewritten /\ InPlace(snap.covered, new)
             /\ ~shrunk /\ Ordered(new) => Len(snap.covered) <= Len(new)
  <2>1. ~rewritten /\ ~shrunk /\ snap.covered \in Seq(RecordType) /\ Len(snap.covered) \in Nat
    BY <1>0, <1>8 DEF IInv, TypeOK
  <2>2. InPlace(snap.covered, file) /\ (Ordered(file) => Len(snap.covered) <= Len(file))
    BY <2>1 DEF IInv, SnapshotIsRead
  <2>3. InPlace(snap.covered, new)
    BY <1>6, <2>1, <2>2
  <2>4. Ordered(new) => Len(snap.covered) <= Len(new)
    <3>1. Ordered(new) => Ordered(file)
      BY <1>3, <1>4 DEF Ordered
    <3>2. PICK k \in Nat : k = Len(snap.covered) /\ (Ordered(new) => k <= m)
      BY <1>3, <2>1, <2>2, <3>1
    <3>3. Ordered(new) => k <= n
      BY <1>3, <3>2
    <3> QED
      BY <1>3, <3>2, <3>3
  <2> QED
    BY <2>1, <2>3, <2>4
<1> QED
  BY <1>0, <1>1, <1>2, <1>3, <1>7, <1>8

\* What was written stays written.
LEMMA RecordsStay ==
  ASSUME IInv, NEW line \in LineType, Put(line), Loads(file')
  PROVE  /\ Loads(file)
         /\ \A r : r \in ToSet(Records(file)) => r \in ToSet(Records(file'))
         /\ Record(line) \in ToSet(Records(file'))
<1>1. file \in Seq(LineType) /\ Len(file) \in Nat /\ file' = Glued(file, line)
  BY DEF IInv, TypeOK, Put
<1>2. file' \in Seq(LineType) /\ Loads(file) /\ Extended(file, line, file')
  BY <1>1, GluedFacts, LoadsBefore
<1>3. /\ \A i \in 1..Len(file) : Records(file')[i] = Records(file)[i]
      /\ Records(file')[Len(file) + 1] = Record(line)
      /\ DOMAIN Records(file') = 1..(Len(file) + 1) /\ DOMAIN Records(file) = 1..Len(file)
  <2>1. /\ DOMAIN Records(file') = 1..Len(file') /\ DOMAIN Records(file) = 1..Len(file)
        /\ \A i \in 1..Len(file') : Records(file')[i] = Record(file'[i])
        /\ \A i \in 1..Len(file) : Records(file)[i] = Record(file[i])
    BY <1>1, <1>2, RecordsFacts
  <2> QED
    BY <1>1, <1>2, <2>1 DEF Extended
<1> QED
  BY <1>1, <1>2, <1>3 DEF ToSet

\* Where a line is found that its writer numbered.
LEMMA WrittenPlace ==
  ASSUME NEW lines \in Seq(LineType), NEW line \in LineType
  PROVE  /\ Ordered(Glued(lines, line)) =>
              /\ line.seq = Len(lines) + 1 /\ line.seq \in DOMAIN Glued(lines, line)
              /\ Glued(lines, line)[line.seq] = line
         /\ line.seq > Len(lines) /\ line.seq \in DOMAIN Glued(lines, line) =>
              Glued(lines, line)[line.seq] = line
<1>1. PICK new \in Seq(LineType) :
        /\ new = Glued(lines, line)
        /\ Extended(lines, line, new) \/ LastSpoilt(lines, new)
  BY GluedFacts
<1>2. PICK m \in Nat, n \in Nat, x \in Nat :
        m = Len(lines) /\ n = Len(new) /\ x = line.seq /\ DOMAIN new = 1..n
  BY <1>1 DEF LineType
<1>3. CASE Extended(lines, line, new)
  <2>1. n = m + 1 /\ new[m + 1] = line
    BY <1>2, <1>3 DEF Extended
  <2>2. OrderedTo(new, n) => x = n
    BY <1>2, <1>3, ExtendedOrder
  <2>3. x > m /\ x \in 1..n => x = m + 1
    BY <2>1
  <2>4. m + 1 \in 1..n
    BY <2>1
  <2> QED
    BY <1>1, <1>2, <2>1, <2>2, <2>3, <2>4 DEF Ordered
<1>4. CASE LastSpoilt(lines, new)
  <2>1. n = m /\ ~OrderedTo(new, n)
    BY <1>2, <1>4, SpoiltOrder DEF LastSpoilt
  <2>2. ~(x > m /\ x \in 1..n)
    BY <2>1
  <2> QED
    BY <1>1, <1>2, <2>1, <2>2 DEF Ordered
<1> QED
  BY <1>1, <1>3, <1>4

\* A line says the record it is written for.
LEMMA LineFits ==
  ASSUME IInv, NEW p \in Processes, NEW r \in RecordType
  PROVE  /\ Line(p, r) \in LineType /\ Record(Line(p, r)) = r
         /\ Line(p, r).seq = Len(store[p].memory) + 1
<1>1. store[p].memory \in Seq(RecordType)
  BY DEF IInv, TypeOK, StoreType
<1>2. Len(store[p].memory) + 1 \in Nat \ {0}
  BY <1>1
<1>3. Line(p, r) \in LineType
  BY <1>2 DEF Line, Cursor, RecordType, LineType
<1>4. Record(Line(p, r)) = r /\ Line(p, r).seq = Len(store[p].memory) + 1
  BY DEF Line, Record, Cursor, RecordType
<1> QED
  BY <1>3, <1>4

\* As much of a line as is there is one.
LEMMA TornFits ==
  ASSUME NEW line \in LineType, NEW whole \in BOOLEAN, NEW ended \in BOOLEAN
  PROVE  [line EXCEPT !.whole = whole, !.ended = ended] \in LineType
BY DEF LineType

\* The writer has in its memory what it wrote, where it wrote it.
LEMMA MemoryGrows ==
  ASSUME IInv, NEW p \in Processes, NEW r \in RecordType, Put(Line(p, r)),
         NEW memory \in Seq(RecordType), memory = Append(store[p].memory, r)
  PROVE  /\ Ordered(file') => IsPrefix(memory, Records(file'))
         /\ ~rewritten' => InPlace(memory, file')
<1> DEFINE line == Line(p, r)
<1>1. line \in LineType /\ Record(line) = r /\ line.seq = Len(store[p].memory) + 1
  BY LineFits
<1>2. store[p].memory \in Seq(RecordType) /\ file \in Seq(LineType) /\ file' = Glued(file, line)
  BY DEF IInv, TypeOK, StoreType, Put
<1>3. /\ file' \in Seq(LineType)
      /\ Ordered(file') => IsPrefix(store[p].memory, Records(file'))
      /\ ~rewritten' => InPlace(store[p].memory, file')
  BY <1>1, FileGrows
<1>4. ~rewritten' => line.seq > Len(file)
  <2>1. PICK x \in Nat, m \in Nat : x = line.seq /\ m = Len(file)
    BY <1>1, <1>2 DEF LineType
  <2>2. ~rewritten' => ~(x <= m)
    BY <2>1 DEF Put
  <2> QED
    BY <2>1, <2>2
<1>5. /\ Ordered(file') => /\ line.seq \in DOMAIN file' /\ file'[line.seq] = line
      /\ ~rewritten' /\ line.seq \in DOMAIN file' => file'[line.seq] = line
  BY <1>1, <1>2, <1>4, WrittenPlace
<1>6. PICK k \in Nat : k = Len(store[p].memory) /\ line.seq = k + 1
  BY <1>1, <1>2
<1> HIDE DEF line
<1>7. /\ Len(memory) = k + 1 /\ DOMAIN memory = 1..(k + 1)
      /\ memory[k + 1] = r /\ \A i \in 1..k : memory[i] = store[p].memory[i]
  BY <1>2, <1>6
<1>8. ASSUME NEW i \in 1..(k + 1) PROVE i \in 1..k \/ i = k + 1
  OBVIOUS
<1>9. PICK n \in Nat : n = Len(file') /\ DOMAIN file' = 1..n
  BY <1>3
<1>10. ASSUME Ordered(file') PROVE IsPrefix(memory, Records(file'))
  <2>1. /\ Records(file') \in Seq(RecordType) /\ Len(Records(file')) = n
        /\ \A i \in 1..n : Records(file')[i] = Record(file'[i])
    BY <1>3, <1>9, RecordsFacts
  <2>2. k + 1 \in 1..n /\ Records(file')[k + 1] = r
    BY <1>1, <1>5, <1>6, <1>9, <1>10, <2>1
  <2>3. \A i \in 1..k : store[p].memory[i] = Records(file')[i]
    BY <1>2, <1>3, <1>6, <1>10, <2>1, PrefixMeans
  <2>4. k + 1 <= n
    BY <2>2
  <2>5. \A i \in 1..(k + 1) : memory[i] = Records(file')[i]
    BY <1>7, <1>8, <2>2, <2>3
  <2> QED
    BY <1>7, <2>1, <2>4, <2>5, PrefixMeans
<1>11. ASSUME ~rewritten' PROVE InPlace(memory, file')
  <2> SUFFICES ASSUME NEW i \in 1..(k + 1), i \in DOMAIN file', OrderedTo(file', i)
               PROVE  memory[i] = Record(file'[i])
    BY <1>7 DEF InPlace
  <2>1. CASE i \in 1..k
    BY <1>2, <1>3, <1>6, <1>7, <1>11, <2>1 DEF InPlace
  <2>2. CASE i = k + 1
    BY <1>1, <1>5, <1>6, <1>7, <1>11, <2>2
  <2> QED
    BY <1>8, <2>1, <2>2
<1> QED
  BY <1>10, <1>11

\* A write, of a record or of a result: memory, snapshot, and all that was acknowledged.
LEMMA WriteKeeps ==
  ASSUME IInv, NEW p \in Processes, NEW r \in RecordType, store[p].open, Write(p, r),
         UNCHANGED <<snap, shrunk>>, done' => done \/ r.id = Final
  PROVE  /\ file' \in Seq(LineType) /\ Len(file') <= MaxLines /\ rewritten' \in BOOLEAN
         /\ store' \in [Processes -> StoreType] /\ acked' \subseteq RecordType
         /\ MemoryIsRead' /\ SnapshotIsRead' /\ AcknowledgedIsKept'
         /\ FinalResultIsWritten' /\ ResumeFindsItsHistory'
         /\ Known(p, r.id)' /\ \A q \in Processes : \A id : Known(q, id) => Known(q, id)'
<1> DEFINE memory == Append(store[p].memory, r)
<1>1. /\ store[p].memory \in Seq(RecordType) /\ memory \in Seq(RecordType)
      /\ memory = Append(store[p].memory, r) /\ Len(memory) = Len(store[p].memory) + 1
      /\ \A i \in 1..Len(store[p].memory) : memory[i] = store[p].memory[i]
      /\ memory[Len(store[p].memory) + 1] = r
  <2>1. store[p].memory \in Seq(RecordType)
    BY DEF IInv, TypeOK, StoreType
  <2> QED
    BY <2>1, PrefixGrows
<1> HIDE DEF memory
<1>2. /\ Line(p, r) \in LineType /\ Record(Line(p, r)) = r /\ Put(Line(p, r))
      /\ acked' = acked \cup {r}
  BY LineFits DEF Write
<1>3. store' \in [Processes -> StoreType] /\ store'[p] = [store[p] EXCEPT !.memory = memory]
      /\ \A q \in Processes : q # p => store'[q] = store[q]
  BY <1>1 DEF IInv, TypeOK, StoreType, Write
<1>4. /\ file' \in Seq(LineType) /\ Len(file') <= MaxLines /\ rewritten' \in BOOLEAN
      /\ \A q \in Processes :
           /\ Ordered(file') => IsPrefix(store[q].memory, Records(file'))
           /\ ~rewritten' => InPlace(store[q].memory, file')
      /\ ~rewritten' =>
           /\ ~rewritten /\ InPlace(snap.covered, file')
           /\ ~shrunk /\ Ordered(file') => Len(snap.covered) <= Len(file')
  BY <1>2, FileGrows
<1>5. /\ Ordered(file') => IsPrefix(memory, Records(file'))
      /\ ~rewritten' => InPlace(memory, file')
  BY <1>1, <1>2, MemoryGrows
<1>6. store'[p].open /\ store'[p].memory = memory /\ store'[p].promised = store[p].promised
  BY <1>3 DEF IInv, TypeOK, StoreType
<1>7. MemoryIsRead'
  <2> SUFFICES ASSUME NEW q \in Processes
               PROVE  /\ ~store'[q].open => store'[q].memory = << >>
                      /\ Ordered(file') => IsPrefix(store'[q].memory, Records(file'))
                      /\ ~rewritten' => InPlace(store'[q].memory, file')
    BY DEF MemoryIsRead
  <2>1. CASE q = p
    BY <1>5, <1>6, <2>1
  <2>2. CASE q # p
    BY <1>3, <1>4, <2>2 DEF IInv, MemoryIsRead
  <2> QED
    BY <2>1, <2>2
<1>8. SnapshotIsRead'
  BY <1>4 DEF SnapshotIsRead
<1>9. AcknowledgedIsKept'
  <2> SUFFICES ASSUME ~shrunk', Loads(file'), NEW x \in acked'
               PROVE  x \in ToSet(Records(file'))
    BY DEF AcknowledgedIsKept
  <2>1. /\ Loads(file) /\ r \in ToSet(Records(file'))
        /\ \A y : y \in ToSet(Records(file)) => y \in ToSet(Records(file'))
    BY <1>2, RecordsStay
  <2>2. x # r => x \in ToSet(Records(file))
    BY <1>2, <2>1 DEF IInv, AcknowledgedIsKept
  <2> QED
    BY <2>1, <2>2
<1>10. FinalResultIsWritten'
  <2> SUFFICES ASSUME done', ~shrunk, Loads(file')
               PROVE  \E x \in ToSet(Records(file')) : x.id = Final
    BY DEF FinalResultIsWritten
  <2>1. /\ Loads(file) /\ r \in ToSet(Records(file'))
        /\ \A y : y \in ToSet(Records(file)) => y \in ToSet(Records(file'))
    BY <1>2, RecordsStay
  <2> QED
    BY <2>1 DEF IInv, FinalResultIsWritten
<1>11. ResumeFindsItsHistory'
  <2> SUFFICES ASSUME NEW q \in Processes, store'[q].open, ~rewritten'
               PROVE  IsPrefix(store'[q].promised, store'[q].memory)
    BY DEF ResumeFindsItsHistory
  <2>1. CASE q = p
    <3>1. IsPrefix(store[p].promised, store[p].memory) /\ store[p].promised \in Seq(RecordType)
          /\ store[p].memory \in Seq(RecordType)
      BY <1>4 DEF IInv, ResumeFindsItsHistory, TypeOK, StoreType
    <3>2. IsPrefix(store[p].promised, memory)
      BY <1>1, <3>1, PrefixOfGrown
    <3> QED
      BY <1>6, <2>1, <3>2
  <2>2. CASE q # p
    BY <1>3, <1>4, <2>2 DEF IInv, ResumeFindsItsHistory
  <2> QED
    BY <2>1, <2>2
<1>12. Known(p, r.id)' /\ \A q \in Processes : \A id : Known(q, id) => Known(q, id)'
  <2>1. PICK k \in Nat : /\ k = Len(store[p].memory) /\ DOMAIN store[p].memory = 1..k
                         /\ DOMAIN memory = 1..(k + 1)
    BY <1>1 DEF IInv, TypeOK, StoreType
  <2>2. k + 1 \in DOMAIN memory /\ \A i \in DOMAIN store[p].memory : i \in DOMAIN memory
    BY <2>1
  <2>3. Known(p, r.id)'
    BY <1>1, <1>6, <2>1, <2>2 DEF Known
  <2>4. ASSUME NEW q \in Processes, NEW id, Known(q, id) PROVE Known(q, id)'
    <3>1. CASE q = p
      BY <1>1, <1>6, <2>1, <2>2, <2>4, <3>1 DEF Known
    <3>2. CASE q # p
      BY <1>3, <2>4, <3>2 DEF Known
    <3> QED
      BY <3>1, <3>2
  <2> QED
    BY <2>3, <2>4
<1> QED
  BY <1>2, <1>3, <1>4, <1>7, <1>8, <1>9, <1>10, <1>11, <1>12 DEF IInv, TypeOK

-----------------------------------------------------------------------------
(* Reading, and losing what was read.                                      *)

\* A store in the place of another: one that read the file, or one that holds nothing.
LEMMA StoreIsSet ==
  ASSUME IInv, NEW p \in Processes, NEW x \in StoreType, store' = [store EXCEPT ![p] = x],
         UNCHANGED <<file, rewritten>>,
         \/ ~x.open /\ x.memory = << >>
         \/ /\ x.open /\ x.memory = Records(file)
            /\ ~rewritten => IsPrefix(x.promised, x.memory)
  PROVE  store' \in [Processes -> StoreType] /\ MemoryIsRead' /\ ResumeFindsItsHistory'
<1>1. /\ store' \in [Processes -> StoreType] /\ store'[p] = x
      /\ \A q \in Processes : q # p => store'[q] = store[q]
  BY DEF IInv, TypeOK
<1>2. file \in Seq(LineType) /\ x.memory \in Seq(RecordType)
  BY DEF IInv, TypeOK, StoreType
<1>3. /\ Records(file) \in Seq(RecordType) /\ Len(Records(file)) = Len(file)
      /\ \A i \in 1..Len(file) : Records(file)[i] = Record(file[i])
  BY <1>2, RecordsFacts
<1>4. /\ ~x.open => x.memory = << >>
      /\ Ordered(file) => IsPrefix(x.memory, Records(file))
      /\ InPlace(x.memory, file)
      /\ x.open /\ ~rewritten => IsPrefix(x.promised, x.memory)
  <2>1. CASE ~x.open /\ x.memory = << >>
    <3>1. IsPrefix(<< >>, Records(file))
      BY <1>3, EmptyIsPrefix
    <3> QED
      BY <2>1, <3>1 DEF InPlace
  <2>2. CASE ~(~x.open /\ x.memory = << >>)
    <3>1. IsPrefix(Records(file), Records(file))
      BY <1>3, PrefixMeans
    <3>2. InPlace(Records(file), file)
      BY <1>2, <1>3 DEF InPlace
    <3>3. x.memory = Records(file) /\ (~rewritten => IsPrefix(x.promised, x.memory))
      BY <2>2
    <3>4. ~x.open => x.memory = << >>
      BY <2>2, Zenon
    <3> QED
      BY <3>1, <3>2, <3>3, <3>4
  <2> QED
    BY <2>1, <2>2
<1>5. MemoryIsRead'
  <2> SUFFICES ASSUME NEW q \in Processes
               PROVE  /\ ~store'[q].open => store'[q].memory = << >>
                      /\ Ordered(file) => IsPrefix(store'[q].memory, Records(file))
                      /\ ~rewritten => InPlace(store'[q].memory, file)
    BY DEF MemoryIsRead
  <2> QED
    BY <1>1, <1>4 DEF IInv, MemoryIsRead
<1>6. ResumeFindsItsHistory'
  BY <1>1, <1>4 DEF IInv, ResumeFindsItsHistory
<1> QED
  BY <1>1, <1>5, <1>6

\* A store that is not open holds nothing, and finalizes nothing.
LEMMA ClosedIsIdle ==
  ASSUME IInv, NEW p \in Processes, ~store[p].open
  PROVE  closing[p] = {}
<1>1. store[p].memory = << >> /\ DOMAIN store[p].memory = {}
  BY DEF IInv, MemoryIsRead
<1>2. ~Known(p, Final)
  BY <1>1 DEF Known
<1> QED
  BY <1>2 DEF IInv, ClosingFollowsResult

\* What is left of the invariant when the file stays and a store is read or dropped.
LEMMA StoreStep ==
  ASSUME IInv, NEW p \in Processes, NEW x \in StoreType, store' = [store EXCEPT ![p] = x],
         \/ closing[p] = {} /\ UNCHANGED closing
         \/ closing' = [closing EXCEPT ![p] = {}]
  PROVE  ClosingFollowsResult'
<1>1. /\ closing'[p] = {} /\ \A q \in Processes : q # p => closing'[q] = closing[q]
      /\ \A q \in Processes : q # p => store'[q] = store[q]
  BY DEF IInv, TypeOK
<1> SUFFICES ASSUME NEW q \in Processes, closing'[q] # {}
             PROVE  Known(q, Final)'
  BY DEF ClosingFollowsResult
<1> QED
  BY <1>1 DEF IInv, ClosingFollowsResult, Known

\* An operation begins with a new store, is resumed from a checkpoint, or ends.
LEMMA OpenKeeps ==
  ASSUME IInv, NEW p \in Processes, Open(p)
  PROVE  IInv'
<1> DEFINE x == [Closed EXCEPT !.open = TRUE, !.memory = Records(file)]
<1>1. /\ ~store[p].open /\ Loads(file) /\ store' = [store EXCEPT ![p] = x]
      /\ UNCHANGED <<file, snap, acked, closing, done, shrunk, rewritten, faults>>
  BY DEF Open
<1>2. Records(file) \in Seq(RecordType)
  BY RecordsFacts DEF IInv, TypeOK
<1>3. /\ x \in StoreType /\ x.open /\ x.memory = Records(file) /\ x.promised = << >>
  <2>1. Closed \in StoreType /\ Closed.promised = << >>
    BY DEF Closed, StoreType
  <2> QED
    BY <1>2, <2>1 DEF StoreType
<1>4. IsPrefix(<< >>, Records(file))
  BY <1>2, EmptyIsPrefix
<1> HIDE DEF x
<1>5. store' \in [Processes -> StoreType] /\ MemoryIsRead' /\ ResumeFindsItsHistory'
  BY <1>1, <1>3, <1>4, StoreIsSet
<1>6. ClosingFollowsResult'
  BY <1>1, <1>3, ClosedIsIdle, StoreStep
<1> QED
  BY <1>1, <1>5, <1>6
     DEF IInv, TypeOK, SnapshotIsRead, AcknowledgedIsKept, FinalResultIsWritten

LEMMA ResumeKeeps ==
  ASSUME IInv, NEW p \in Processes, Resume(p)
  PROVE  IInv'
<1> DEFINE x == [open |-> TRUE, memory |-> Records(file), promised |-> snap.covered]
<1>1. /\ ~store[p].open /\ Loads(file) /\ store' = [store EXCEPT ![p] = x]
      /\ UNCHANGED <<file, snap, acked, closing, done, shrunk, rewritten, faults>>
      /\ Len(Records(file)) >= snap.cursor
  BY DEF Resume, RequireCursor
<1>2. /\ file \in Seq(LineType) /\ Records(file) \in Seq(RecordType)
      /\ Len(Records(file)) = Len(file)
      /\ \A i \in 1..Len(file) : Records(file)[i] = Record(file[i])
  BY RecordsFacts DEF IInv, TypeOK
<1>3. /\ x \in StoreType /\ x.open /\ x.memory = Records(file) /\ x.promised = snap.covered
  BY <1>2 DEF IInv, TypeOK, StoreType
<1>4. ASSUME ~rewritten PROVE IsPrefix(snap.covered, Records(file))
  <2>1. /\ snap.covered \in Seq(RecordType) /\ snap.cursor = Len(snap.covered)
        /\ InPlace(snap.covered, file)
    BY <1>4 DEF IInv, TypeOK, SnapshotIsRead
  <2>2. PICK k \in Nat, n \in Nat :
          k = Len(snap.covered) /\ n = Len(file) /\ n >= k /\ DOMAIN file = 1..n
    BY <1>1, <1>2, <2>1
  <2>3. \A i \in 1..n : OrderedTo(file, i)
    <3>1. \A i \in 1..n : InOrder(file, i)
      BY <1>1, <2>2 DEF Loads, InOrder
    <3> QED
      BY <3>1, <2>2 DEF OrderedTo
  <2>4. \A i \in 1..k : i \in 1..n
    BY <2>2
  <2>5. \A i \in 1..k : snap.covered[i] = Records(file)[i]
    BY <1>2, <2>1, <2>2, <2>3, <2>4 DEF InPlace
  <2> QED
    BY <1>2, <2>1, <2>2, <2>5, PrefixMeans
<1> HIDE DEF x
<1>5. store' \in [Processes -> StoreType] /\ MemoryIsRead' /\ ResumeFindsItsHistory'
  BY <1>1, <1>3, <1>4, StoreIsSet
<1>6. ClosingFollowsResult'
  BY <1>1, <1>3, ClosedIsIdle, StoreStep
<1> QED
  BY <1>1, <1>5, <1>6
     DEF IInv, TypeOK, SnapshotIsRead, AcknowledgedIsKept, FinalResultIsWritten

\* A store that is dropped holds nothing.
LEMMA ClosedFits ==
  Closed \in StoreType /\ ~Closed.open /\ Closed.memory = << >>
BY DEF Closed, StoreType

LEMMA CloseKeeps ==
  ASSUME IInv, NEW p \in Processes, Close(p)
  PROVE  IInv'
<1>1. /\ closing[p] = {} /\ store' = [store EXCEPT ![p] = Closed]
      /\ UNCHANGED <<file, snap, acked, closing, done, shrunk, rewritten, faults>>
  BY DEF Close
<1>2. store' \in [Processes -> StoreType] /\ MemoryIsRead' /\ ResumeFindsItsHistory'
  BY <1>1, ClosedFits, StoreIsSet
<1>3. ClosingFollowsResult'
  BY <1>1, ClosedFits, StoreStep
<1> QED
  BY <1>1, <1>2, <1>3
     DEF IInv, TypeOK, SnapshotIsRead, AcknowledgedIsKept, FinalResultIsWritten

LEMMA CrashKeeps ==
  ASSUME IInv, NEW p \in Processes, Crash(p)
  PROVE  IInv'
<1>1. /\ store' = [store EXCEPT ![p] = Closed] /\ closing' = [closing EXCEPT ![p] = {}]
      /\ UNCHANGED <<file, snap, acked, done, shrunk, rewritten>>
      /\ faults < MaxFaults /\ faults' = faults + 1
  BY DEF Crash, Lose, Fault
<1>2. store' \in [Processes -> StoreType] /\ MemoryIsRead' /\ ResumeFindsItsHistory'
  BY <1>1, ClosedFits, StoreIsSet
<1>3. ClosingFollowsResult'
  BY <1>1, ClosedFits, StoreStep
<1>4. closing' \in [Processes -> SUBSET Notes] /\ faults' \in 0..MaxFaults
  BY <1>1, HistoryBounds DEF IInv, TypeOK
<1> QED
  BY <1>1, <1>2, <1>3, <1>4
     DEF IInv, TypeOK, SnapshotIsRead, AcknowledgedIsKept, FinalResultIsWritten

\* A checkpoint sees what the store has, and the file has that.
LEMMA SnapshotKeeps ==
  ASSUME IInv, NEW p \in Processes, Snapshot(p)
  PROVE  IInv'
<1>1. /\ snap' = [cursor |-> Len(store[p].memory), covered |-> store[p].memory]
      /\ UNCHANGED <<file, store, acked, closing, done, shrunk, rewritten, faults>>
  BY DEF Snapshot, Cursor
<1>2. /\ store[p].memory \in Seq(RecordType) /\ file \in Seq(LineType)
      /\ Ordered(file) => IsPrefix(store[p].memory, Records(file))
      /\ ~rewritten => InPlace(store[p].memory, file)
  BY DEF IInv, TypeOK, StoreType, MemoryIsRead
<1>3. snap'.covered = store[p].memory /\ snap'.cursor = Len(snap'.covered)
  BY <1>1
<1>4. Ordered(file) => Len(store[p].memory) <= Len(file)
  BY <1>2, RecordsFacts, PrefixMeans
<1>5. SnapshotIsRead'
  BY <1>1, <1>2, <1>3, <1>4 DEF SnapshotIsRead
<1>6. TypeOK'
  BY <1>1, <1>2, <1>3 DEF IInv, TypeOK
<1>7. ClosingFollowsResult' /\ MemoryIsRead'
  BY <1>1 DEF IInv, MemoryIsRead, ClosingFollowsResult, Known
<1> QED
  BY <1>1, <1>5, <1>6, <1>7
     DEF IInv, AcknowledgedIsKept, FinalResultIsWritten, ResumeFindsItsHistory

-----------------------------------------------------------------------------
(* Writing and acknowledging.                                              *)

\* A record that a store knows is in any file that loads.
LEMMA KnownIsInFile ==
  ASSUME IInv, NEW p \in Processes, NEW r, Agrees(p, r), Loads(file)
  PROVE  r \in ToSet(Records(file))
<1>1. /\ store[p].memory \in Seq(RecordType) /\ file \in Seq(LineType)
      /\ IsPrefix(store[p].memory, Records(file))
  BY LoadedIsOrdered DEF IInv, TypeOK, StoreType, MemoryIsRead
<1>2. /\ Records(file) \in Seq(RecordType)
      /\ Len(store[p].memory) <= Len(Records(file))
      /\ \A i \in 1..Len(store[p].memory) : store[p].memory[i] = Records(file)[i]
  BY <1>1, RecordsFacts, PrefixMeans
<1>3. PICK i \in DOMAIN store[p].memory : store[p].memory[i] = r
  BY DEF Agrees
<1>4. i \in DOMAIN Records(file) /\ Records(file)[i] = r
  <2>1. DOMAIN store[p].memory = 1..Len(store[p].memory) /\ Len(store[p].memory) \in Nat
    BY <1>1
  <2>2. DOMAIN Records(file) = 1..Len(Records(file)) /\ Len(Records(file)) \in Nat
    BY <1>2
  <2>3. i \in 1..Len(store[p].memory)
    BY <1>3, <2>1
  <2>4. i \in 1..Len(Records(file))
    BY <1>2, <2>1, <2>2, <2>3
  <2> QED
    BY <1>2, <1>3, <2>2, <2>3, <2>4
<1> QED
  BY <1>4 DEF ToSet

\* So is the result of the task, for whoever finalizes it.
LEMMA KnownResultIsInFile ==
  ASSUME IInv, NEW p \in Processes, Known(p, Final), Loads(file)
  PROVE  \E r \in ToSet(Records(file)) : r.id = Final
<1>1. PICK i \in DOMAIN store[p].memory : store[p].memory[i].id = Final
  BY DEF Known
<1>2. Agrees(p, store[p].memory[i])
  BY DEF Agrees
<1> QED
  BY <1>1, <1>2, KnownIsInFile

LEMMA AppendKeeps ==
  ASSUME IInv, NEW p \in Processes, NEW r \in RecordsOf(Ids), AppendRecord(p, r)
  PROVE  IInv'
<1>1. /\ store[p].open /\ r \in RecordType
      /\ UNCHANGED <<snap, closing, done, shrunk, faults>>
  BY DEF AppendRecord, RecordsOf, RecordType
<1>2. CASE Known(p, r.id)
  <2>1. Agrees(p, r) /\ acked' = acked \cup {r} /\ UNCHANGED <<file, store, rewritten>>
    BY <1>2 DEF AppendRecord
  <2>2. AcknowledgedIsKept'
    BY <1>1, <2>1, KnownIsInFile DEF IInv, AcknowledgedIsKept
  <2>3. ClosingFollowsResult' /\ MemoryIsRead' /\ ResumeFindsItsHistory'
    BY <1>1, <2>1 DEF IInv, MemoryIsRead, ClosingFollowsResult, ResumeFindsItsHistory, Known
  <2> QED
    BY <1>1, <2>1, <2>2, <2>3 DEF IInv, TypeOK, SnapshotIsRead, FinalResultIsWritten
<1>3. CASE ~Known(p, r.id)
  <2>1. Write(p, r)
    BY <1>3 DEF AppendRecord
  <2>2. /\ file' \in Seq(LineType) /\ Len(file') <= MaxLines /\ rewritten' \in BOOLEAN
        /\ store' \in [Processes -> StoreType] /\ acked' \subseteq RecordType
        /\ MemoryIsRead' /\ SnapshotIsRead' /\ AcknowledgedIsKept'
        /\ FinalResultIsWritten' /\ ResumeFindsItsHistory'
        /\ \A q \in Processes : \A id : Known(q, id) => Known(q, id)'
    BY <1>1, <2>1, WriteKeeps
  <2>3. ClosingFollowsResult'
    BY <1>1, <2>2 DEF IInv, ClosingFollowsResult
  <2> QED
    BY <1>1, <2>2, <2>3 DEF IInv, TypeOK
<1> QED
  BY <1>2, <1>3

\* The result is on record before the first note.
LEMMA FinalizeKeeps ==
  ASSUME IInv, NEW p \in Processes, NEW content \in Contents, Finalize(p, content)
  PROVE  IInv'
<1> DEFINE r == [id |-> Final, content |-> content]
<1>1. /\ store[p].open /\ r \in RecordType /\ r.id = Final
      /\ closing' = [closing EXCEPT ![p] = Notes]
      /\ done' = (done \/ Notes = {}) /\ UNCHANGED <<snap, shrunk, faults>>
  BY DEF Finalize, RecordType
<1>2. /\ closing' \in [Processes -> SUBSET Notes] /\ closing'[p] = Notes
      /\ \A q \in Processes : q # p => closing'[q] = closing[q]
  BY <1>1 DEF IInv, TypeOK
<1>3. CASE Known(p, Final)
  <2>1. UNCHANGED <<file, store, acked, rewritten>>
    BY <1>3 DEF Finalize
  <2>2. ClosingFollowsResult'
    BY <1>1, <1>2, <1>3, <2>1 DEF IInv, ClosingFollowsResult, Known
  <2>3. MemoryIsRead' /\ ResumeFindsItsHistory'
    BY <1>1, <2>1 DEF IInv, MemoryIsRead, ResumeFindsItsHistory
  <2>4. FinalResultIsWritten'
    BY <1>1, <1>3, <2>1, KnownResultIsInFile DEF IInv, FinalResultIsWritten
  <2> QED
    BY <1>1, <1>2, <2>1, <2>2, <2>3, <2>4
       DEF IInv, TypeOK, SnapshotIsRead, AcknowledgedIsKept
<1>4. CASE ~Known(p, Final)
  <2>1. Write(p, r)
    BY <1>4 DEF Finalize
  <2> HIDE DEF r
  <2>2. /\ file' \in Seq(LineType) /\ Len(file') <= MaxLines /\ rewritten' \in BOOLEAN
        /\ store' \in [Processes -> StoreType] /\ acked' \subseteq RecordType
        /\ MemoryIsRead' /\ SnapshotIsRead' /\ AcknowledgedIsKept'
        /\ FinalResultIsWritten' /\ ResumeFindsItsHistory'
        /\ Known(p, r.id)' /\ \A q \in Processes : \A id : Known(q, id) => Known(q, id)'
    BY <1>1, <2>1, WriteKeeps
  <2>3. Known(p, Final)'
    BY <1>1, <2>2
  <2>4. ClosingFollowsResult'
    BY <1>1, <1>2, <2>2, <2>3 DEF IInv, ClosingFollowsResult
  <2> QED
    BY <1>1, <1>2, <2>2, <2>4 DEF IInv, TypeOK
<1> QED
  BY <1>3, <1>4

\* Notes are taken off the list one by one, and finalization returns with the last.
LEMMA WriteNoteKeeps ==
  ASSUME IInv, NEW p \in Processes, NEW note \in Notes, WriteNote(p, note)
  PROVE  IInv'
<1>1. /\ note \in closing[p] /\ closing' = [closing EXCEPT ![p] = @ \ {note}]
      /\ done' = (done \/ closing'[p] = {})
      /\ UNCHANGED <<file, store, snap, acked, shrunk, rewritten, faults>>
  BY DEF WriteNote
<1>2. /\ closing' \in [Processes -> SUBSET Notes] /\ closing'[p] = closing[p] \ {note}
      /\ \A q \in Processes : q # p => closing'[q] = closing[q]
  BY <1>1 DEF IInv, TypeOK
<1>3. Known(p, Final)
  BY <1>1 DEF IInv, ClosingFollowsResult
<1>4. TypeOK'
  BY <1>1, <1>2 DEF IInv, TypeOK
<1>5. ClosingFollowsResult'
  BY <1>1, <1>2, <1>3 DEF IInv, ClosingFollowsResult, Known
<1>6. FinalResultIsWritten'
  BY <1>1, <1>3, KnownResultIsInFile DEF IInv, FinalResultIsWritten
<1>7. MemoryIsRead' /\ ResumeFindsItsHistory'
  BY <1>1 DEF IInv, MemoryIsRead, ResumeFindsItsHistory
<1> QED
  BY <1>1, <1>4, <1>5, <1>6, <1>7 DEF IInv, SnapshotIsRead, AcknowledgedIsKept

-----------------------------------------------------------------------------
(* Faults.                                                                 *)

\* Part of a line, or all of it, from a writer that never learns.
LEMMA CrashInWriteKeeps ==
  ASSUME IInv, NEW p \in Processes, NEW r \in RecordsOf(Ids \cup {Final}),
         NEW whole \in BOOLEAN, NEW ended \in BOOLEAN, CrashInWrite(p, r, whole, ended)
  PROVE  IInv'
<1> DEFINE line == [Line(p, r) EXCEPT !.whole = whole, !.ended = ended]
<1>1. /\ store' = [store EXCEPT ![p] = Closed] /\ closing' = [closing EXCEPT ![p] = {}]
      /\ UNCHANGED <<snap, acked, done, shrunk>> /\ Put(line)
      /\ faults < MaxFaults /\ faults' = faults + 1
  BY DEF CrashInWrite, Lose, Fault
<1>2. line \in LineType
  <2>1. Line(p, r) \in LineType
    BY LineFits DEF RecordsOf, RecordType
  <2>2. \A l \in LineType : [l EXCEPT !.whole = whole, !.ended = ended] \in LineType
    BY TornFits
  <2> QED
    BY <2>1, <2>2
<1> HIDE DEF line
<1>3. /\ file' \in Seq(LineType) /\ Len(file') <= MaxLines /\ rewritten' \in BOOLEAN
      /\ \A q \in Processes :
           /\ Ordered(file') => IsPrefix(store[q].memory, Records(file'))
           /\ ~rewritten' => InPlace(store[q].memory, file')
      /\ ~rewritten' =>
           /\ ~rewritten /\ InPlace(snap.covered, file')
           /\ ~shrunk /\ Ordered(file') => Len(snap.covered) <= Len(file')
  BY <1>1, <1>2, FileGrows
<1>4. /\ store' \in [Processes -> StoreType] /\ store'[p] = Closed
      /\ \A q \in Processes : q # p => store'[q] = store[q]
  BY <1>1, ClosedFits DEF IInv, TypeOK
<1>5. /\ Ordered(file') => IsPrefix(<< >>, Records(file'))
      /\ InPlace(<< >>, file')
  BY <1>3, RecordsFacts, EmptyIsPrefix DEF InPlace
<1>6. MemoryIsRead'
  <2> SUFFICES ASSUME NEW q \in Processes
               PROVE  /\ ~store'[q].open => store'[q].memory = << >>
                      /\ Ordered(file') => IsPrefix(store'[q].memory, Records(file'))
                      /\ ~rewritten' => InPlace(store'[q].memory, file')
    BY DEF MemoryIsRead
  <2>1. CASE q = p
    BY <1>4, <1>5, <2>1, ClosedFits
  <2>2. CASE q # p
    BY <1>3, <1>4, <2>2 DEF IInv, MemoryIsRead
  <2> QED
    BY <2>1, <2>2
<1>7. ResumeFindsItsHistory'
  BY <1>3, <1>4, ClosedFits DEF IInv, ResumeFindsItsHistory
<1>8. ClosingFollowsResult'
  BY <1>1, ClosedFits, StoreStep
<1>9. closing' \in [Processes -> SUBSET Notes] /\ faults' \in 0..MaxFaults
  BY <1>1, HistoryBounds DEF IInv, TypeOK
<1>10. TypeOK' /\ SnapshotIsRead'
  BY <1>1, <1>3, <1>4, <1>9 DEF IInv, TypeOK, SnapshotIsRead
<1>11. Loads(file') => /\ Loads(file)
                       /\ \A x : x \in ToSet(Records(file)) => x \in ToSet(Records(file'))
  BY <1>1, <1>2, RecordsStay
<1>12. AcknowledgedIsKept' /\ FinalResultIsWritten'
  BY <1>1, <1>11 DEF IInv, AcknowledgedIsKept, FinalResultIsWritten
<1> QED
  BY <1>6, <1>7, <1>8, <1>10, <1>12 DEF IInv

\* A shorter file is in order wherever the longer one was.
LEMMA ShrinkKeeps ==
  ASSUME IInv, Shrink
  PROVE  IInv'
<1>1. /\ \A p \in Processes : ~store[p].open
      /\ file # << >> /\ file' = Front(file) /\ shrunk'
      /\ faults < MaxFaults /\ faults' = faults + 1
      /\ shrunk' \in BOOLEAN
      /\ UNCHANGED <<store, snap, acked, closing, done, rewritten>>
  BY DEF Shrink, Fault
<1>2. PICK n \in Nat :
        /\ file \in Seq(LineType) /\ n = Len(file) /\ n <= MaxLines /\ DOMAIN file = 1..n
        /\ n >= 1 /\ file' \in Seq(LineType) /\ Len(file') = n - 1
        /\ DOMAIN file' = 1..(n - 1) /\ \A i \in 1..(n - 1) : file'[i] = file[i]
  <2>1. file \in Seq(LineType) /\ Len(file) <= MaxLines
    BY DEF IInv, TypeOK
  <2> QED
    BY <1>1, <2>1, FrontFacts
<1>3. TypeOK'
  BY <1>1, <1>2, HistoryBounds DEF IInv, TypeOK
<1>4. \A i \in 1..(n - 1) : OrderedTo(file', i) => OrderedTo(file, i)
  BY <1>2 DEF OrderedTo, InOrder
<1>5. InPlace(snap.covered, file) => InPlace(snap.covered, file')
  <2>1. \A i \in 1..(n - 1) : i \in 1..n
    BY <1>2
  <2> QED
    BY <1>2, <1>4, <2>1 DEF InPlace
<1>6. SnapshotIsRead'
  BY <1>1, <1>5 DEF IInv, SnapshotIsRead
<1>7. MemoryIsRead'
  <2>1. \A p \in Processes : store[p].memory = << >>
    BY <1>1 DEF IInv, MemoryIsRead
  <2>2. IsPrefix(<< >>, Records(file')) /\ InPlace(<< >>, file')
    BY <1>2, RecordsFacts, EmptyIsPrefix DEF InPlace
  <2> QED
    BY <1>1, <2>1, <2>2 DEF MemoryIsRead
<1>8. ClosingFollowsResult' /\ ResumeFindsItsHistory'
  BY <1>1 DEF IInv, ClosingFollowsResult, Known, ResumeFindsItsHistory
<1> QED
  BY <1>1, <1>3, <1>6, <1>7, <1>8
     DEF IInv, AcknowledgedIsKept, FinalResultIsWritten

-----------------------------------------------------------------------------
(* The theorems.                                                           *)

LEMMA InitHolds ==
  Init => IInv
<1> SUFFICES ASSUME Init PROVE IInv
  OBVIOUS
<1>1. /\ file = << >> /\ store = [p \in Processes |-> Closed]
      /\ snap = [cursor |-> 0, covered |-> << >>] /\ acked = {}
      /\ closing = [p \in Processes |-> {}] /\ done = FALSE /\ shrunk = FALSE
      /\ rewritten = FALSE /\ faults = 0
  BY DEF Init
<1>2. /\ << >> \in Seq(LineType) /\ << >> \in Seq(RecordType) /\ Len(<< >>) = 0
      /\ snap.cursor = 0 /\ snap.covered = << >> /\ DOMAIN << >> = {}
  BY <1>1
<1>3. /\ store \in [Processes -> StoreType]
      /\ \A p \in Processes : ~store[p].open /\ store[p].memory = << >>
  BY <1>1, ClosedFits
<1>4. TypeOK
  <2>1. file \in Seq(LineType) /\ Len(file) <= MaxLines
    BY <1>1, <1>2, HistoryBounds
  <2>2. snap \in [cursor : Nat, covered : Seq(RecordType)] /\ snap.cursor = Len(snap.covered)
    <3>1. 0 \in Nat /\ << >> \in Seq(RecordType)
      BY <1>2
    <3>2. snap \in [cursor : Nat, covered : Seq(RecordType)]
      BY <1>1, <3>1
    <3> QED
      BY <1>2, <3>2
  <2>3. closing \in [Processes -> SUBSET Notes] /\ faults \in 0..MaxFaults
    BY <1>1, HistoryBounds
  <2> QED
    BY <1>1, <1>3, <2>1, <2>2, <2>3 DEF TypeOK
<1>5. MemoryIsRead
  <2>1. IsPrefix(<< >>, Records(file)) /\ InPlace(<< >>, file)
    BY <1>1, <1>2, RecordsFacts, EmptyIsPrefix DEF InPlace
  <2> QED
    BY <1>3, <2>1 DEF MemoryIsRead
<1>6. SnapshotIsRead
  BY <1>1, <1>2 DEF SnapshotIsRead, InPlace
<1>7. /\ AcknowledgedIsKept /\ FinalResultIsWritten /\ ResumeFindsItsHistory
      /\ ClosingFollowsResult
  BY <1>1, <1>3
     DEF AcknowledgedIsKept, FinalResultIsWritten, ResumeFindsItsHistory, ClosingFollowsResult
<1> QED
  BY <1>4, <1>5, <1>6, <1>7 DEF IInv

LEMMA StepKeeps ==
  IInv /\ [Next]_vars => IInv'
<1> SUFFICES ASSUME IInv, [Next]_vars PROVE IInv'
  OBVIOUS
<1>1. ASSUME NEW p \in Processes, Open(p) PROVE IInv'
  BY <1>1, OpenKeeps
<1>2. ASSUME NEW p \in Processes, Resume(p) PROVE IInv'
  BY <1>2, ResumeKeeps
<1>3. ASSUME NEW p \in Processes, Close(p) PROVE IInv'
  BY <1>3, CloseKeeps
<1>4. ASSUME NEW p \in Processes, Snapshot(p) PROVE IInv'
  BY <1>4, SnapshotKeeps
<1>5. ASSUME NEW p \in Processes, Crash(p) PROVE IInv'
  BY <1>5, CrashKeeps
<1>6. ASSUME NEW p \in Processes, NEW r \in RecordsOf(Ids), AppendRecord(p, r) PROVE IInv'
  BY <1>6, AppendKeeps
<1>7. ASSUME NEW p \in Processes, NEW r \in RecordsOf(Ids \cup {Final}),
             \/ CrashInWrite(p, r, FALSE, FALSE) \/ CrashInWrite(p, r, TRUE, FALSE)
             \/ CrashInWrite(p, r, TRUE, TRUE)
      PROVE  IInv'
  BY <1>7, CrashInWriteKeeps
<1>8. ASSUME NEW p \in Processes, NEW c \in Contents, Finalize(p, c) PROVE IInv'
  BY <1>8, FinalizeKeeps
<1>9. ASSUME NEW p \in Processes, NEW note \in Notes, WriteNote(p, note) PROVE IInv'
  BY <1>9, WriteNoteKeeps
<1>10. CASE Shrink
  BY <1>10, ShrinkKeeps
<1>11. CASE UNCHANGED vars
  BY <1>11
     DEF vars, IInv, TypeOK, MemoryIsRead, SnapshotIsRead, AcknowledgedIsKept,
         ClosingFollowsResult, Known, FinalResultIsWritten, ResumeFindsItsHistory
<1> QED
  BY <1>1, <1>2, <1>3, <1>4, <1>5, <1>6, <1>7, <1>8, <1>9, <1>10, <1>11 DEF Next

LEMMA Invariance ==
  Spec => []IInv
<1>1. Init => IInv
  BY InitHolds
<1>2. IInv /\ [Next]_vars => IInv'
  BY StepKeeps
<1> QED
  BY <1>1, <1>2, PTL DEF Spec

\* The copies of the notepad, step by step: who gives up an older copy leaves what it had
\* to write, who writes one leaves out only what it still has to write.
LEMMA NotesStep ==
  ASSUME IInv, NotesInv, [Next]_vars
  PROVE  NotesInv'
<1> USE DEF NotesInv, NotesTypeOK, WrittenIsRemembered, MissingNotesAreOwed, notepads
<1>1. ASSUME NEW p \in Processes, closing[p] = {}, UNCHANGED <<closing, done>>,
             \/ LoadNotes(p)
             \/ notes' = [notes EXCEPT ![p] = {}] /\ UNCHANGED <<notepad, abandoned>>
      PROVE  NotesInv'
  BY <1>1 DEF LoadNotes
<1>2. ASSUME NEW p \in Processes, Lose(p) PROVE NotesInv'
  <2>1. /\ closing' = [closing EXCEPT ![p] = {}] /\ UNCHANGED <<notepad, done>>
        /\ notes' = [notes EXCEPT ![p] = {}]
        /\ abandoned' = abandoned \cup {note \in closing[p] : done}
    BY <1>2 DEF Lose
  <2>2. NotesTypeOK' /\ WrittenIsRemembered'
    BY <2>1
  <2>3. ASSUME done, NEW n \in Notes \ notepad
        PROVE  n \in abandoned' \/ \E q \in Processes : n \in closing'[q]
    <3>1. CASE n \in closing[p]
      BY <2>1, <2>3, <3>1
    <3>2. CASE n \notin closing[p]
      BY <2>1, <2>3, <3>2
    <3> QED
      BY <3>1, <3>2
  <2> QED
    BY <2>1, <2>2, <2>3
<1>3. ASSUME NEW p \in Processes, NEW content \in Contents, Finalize(p, content)
      PROVE  NotesInv'
  BY <1>3 DEF Finalize
<1>4. ASSUME NEW p \in Processes, NEW note \in Notes, WriteNote(p, note) PROVE NotesInv'
  <2>1. /\ note \in closing[p] /\ closing' = [closing EXCEPT ![p] = @ \ {note}]
        /\ notes' = [notes EXCEPT ![p] = @ \cup {note}]
        /\ notepad' = notes[p] \cup {note} /\ abandoned' = abandoned
    BY <1>4 DEF WriteNote, Persist
  <2>2. NotesTypeOK' /\ WrittenIsRemembered'
    BY <2>1
  <2>3. \A n \in Notes : n \in notepad' \/ n \in closing'[p]
    BY <2>1
  <2> QED
    BY <2>2, <2>3
<1>5. CASE UNCHANGED <<notepads, closing, done>>
  BY <1>5
<1>6. ASSUME NEW p \in Processes, Open(p) \/ Resume(p) PROVE NotesInv'
  BY <1>1, <1>6, ClosedIsIdle DEF Open, Resume
<1>7. ASSUME NEW p \in Processes, Close(p) PROVE NotesInv'
  BY <1>1, <1>7 DEF Close
<1>8. ASSUME NEW p \in Processes, NEW r, NEW whole, NEW ended,
             Crash(p) \/ CrashInWrite(p, r, whole, ended)
      PROVE  NotesInv'
  BY <1>2, <1>8 DEF Crash, CrashInWrite
<1>9. ASSUME NEW p \in Processes, NEW r, Snapshot(p) \/ AppendRecord(p, r)
      PROVE  NotesInv'
  BY <1>5, <1>9 DEF Snapshot, AppendRecord
<1>10. CASE Shrink \/ UNCHANGED vars
  BY <1>5, <1>10 DEF Shrink, vars
<1> QED
  BY <1>3, <1>4, <1>6, <1>7, <1>8, <1>9, <1>10 DEF Next

LEMMA NotesInvariance ==
  Spec => []NotesInv
<1>1. Init => NotesInv
  BY DEF Init, NotesInv, NotesTypeOK, WrittenIsRemembered, MissingNotesAreOwed
<1>2. IInv /\ NotesInv /\ [Next]_vars => NotesInv'
  BY NotesStep
<1> QED
  BY <1>1, <1>2, Invariance, PTL DEF Spec

\* Every file, store, and checkpoint is well formed, and within the bounds, whoever writes.
THEOREM TypeCorrect ==
  Spec => [](TypeOK /\ NotesTypeOK)
<1>1. IInv /\ NotesInv => TypeOK /\ NotesTypeOK
  BY DEF IInv, NotesInv
<1> QED
  BY <1>1, Invariance, NotesInvariance, PTL

\* Two stores that hold different records for one place leave a file that no operation
\* loads (_load_existing raises): a fork is noticed, never merged.
THEOREM ForkIsNoticed ==
  Spec => []ForksAreNoticed
<1>1. IInv => ForksAreNoticed
  <2> SUFFICES ASSUME IInv, NEW p \in Processes, NEW q \in Processes,
                      NEW i \in DOMAIN store[p].memory, i \in DOMAIN store[q].memory,
                      Loads(file)
               PROVE  store[p].memory[i] = store[q].memory[i]
    BY DEF ForksAreNoticed
  <2>1. /\ store[p].memory \in Seq(RecordType) /\ store[q].memory \in Seq(RecordType)
        /\ file \in Seq(LineType)
    BY DEF IInv, TypeOK, StoreType
  <2>2. IsPrefix(store[p].memory, Records(file)) /\ IsPrefix(store[q].memory, Records(file))
    BY <2>1, LoadedIsOrdered DEF IInv, MemoryIsRead
  <2>3. i \in 1..Len(store[p].memory) /\ i \in 1..Len(store[q].memory)
    BY <2>1
  <2>4. Records(file) \in Seq(RecordType)
    BY <2>1, RecordsFacts
  <2>5. store[p].memory[i] = Records(file)[i] /\ store[q].memory[i] = Records(file)[i]
    BY <2>1, <2>2, <2>3, <2>4, PrefixMeans
  <2> QED
    BY <2>5
<1> QED
  BY <1>1, Invariance, PTL

\* A record whose append returned, and the result of a finalization that returned, are
\* there for whoever loads the file later, after any crash, torn write, or second writer;
\* unless the file was cut from outside.
THEOREM WrittenIsKept ==
  Spec => []ReportedIsKept
<1>1. IInv => ReportedIsKept
  BY DEF IInv, ReportedIsKept
<1> QED
  BY <1>1, Invariance, PTL

\* After FinalizationService.finalize has returned, a note that the notepad file lacks is
\* one that another finalization, which read the file before and replaced it since, has
\* still to write, or had to when it was lost: the order of the stores' whole-file writes
\* alone loses no note for good.
THEOREM NotesAreOwed ==
  Spec => []MissingNotesAreOwed
<1>1. NotesInv => MissingNotesAreOwed
  BY DEF NotesInv
<1> QED
  BY <1>1, NotesInvariance, PTL

\* MultiAgentWorkflow.resume goes on from the records its checkpoint had seen, or not at
\* all, also when the file was cut in between; unless a place was written twice.
THEOREM ResumeIsGrounded ==
  Spec => []ResumeFindsItsHistory
<1>1. IInv => ResumeFindsItsHistory
  BY DEF IInv
<1> QED
  BY <1>1, Invariance, PTL

-----------------------------------------------------------------------------
(* The chain of evidence: numbers, results, and what is traced.            *)

\* Among finitely many numbers one is the greatest.
LEMMA Greatest ==
  ASSUME NEW n \in Nat, NEW S \in SUBSET (1..n), S # {}
  PROVE  \E m \in S : \A q \in S : q <= m
<1> DEFINE R == OpToRel(<, Nat)
           T == {n - q : q \in S}
<1>1. T \subseteq Nat /\ T # {}
  <2>1. \A q \in S : n - q \in Nat
    OBVIOUS
  <2> QED
    BY <2>1
<1>2. PICK x \in T : \A y \in T : ~(<<y, x>> \in R)
  <2> HIDE DEF T
  <2>1. IsWellFoundedOn(R, Nat)
    BY NatLessThanWellFounded
  <2> HIDE DEF R
  <2> QED
    BY <1>1, <2>1, WFMin
<1>3. ASSUME NEW y \in T PROVE ~(y < x)
  <2>1. y < x => <<y, x>> \in R
    <3> HIDE DEF T
    <3> QED
      BY <1>1, <1>3, Zenon DEF OpToRel
  <2> QED
    BY <1>2, <2>1
<1>4. PICK m \in S : x = n - m
  OBVIOUS
<1>5. ASSUME NEW q \in S PROVE q <= m
  <2>1. n - q \in T
    OBVIOUS
  <2>2. ~(n - q < n - m)
    BY <1>3, <1>4, <2>1
  <2> QED
    BY <2>2
<1> QED
  BY <1>5

\* A later result: the earlier ones keep their places.
LEMMA OneMoreResult ==
  ASSUME ResultsNumbered, NEW x, results' = Append(results, x)
  PROVE  /\ Len(results) \in Nat /\ DOMAIN results = 1..Len(results)
         /\ Len(results') = Len(results) + 1 /\ DOMAIN results' = 1..(Len(results) + 1)
         /\ \A i \in DOMAIN results : results'[i] = results[i]
         /\ results'[Len(results) + 1] = x
         /\ results' \in Seq({results'[i] : i \in DOMAIN results'})
         /\ Latest' = x
<1> DEFINE S == {results[i] : i \in DOMAIN results} \cup {x}
<1>1. results \in Seq(S) /\ x \in S /\ Len(results) \in Nat /\ DOMAIN results = 1..Len(results)
  <2>1. results \in Seq({results[i] : i \in DOMAIN results})
    BY DEF ResultsNumbered
  <2> QED
    BY <2>1, SeqMonotonic
<1> HIDE DEF S
<1>2. /\ results' \in Seq(S) /\ Len(results') = Len(results) + 1
      /\ \A i \in 1..Len(results) : results'[i] = results[i]
      /\ results'[Len(results) + 1] = x
  BY <1>1, AppendProperties
<1>3. DOMAIN results' = 1..Len(results') /\ Len(results') \in Nat
  BY <1>2
<1>4. results' \in Seq({results'[i] : i \in DOMAIN results'})
  BY <1>2, <1>3, SeqOfRange DEF Range
<1> QED
  BY <1>1, <1>2, <1>3, <1>4 DEF Latest

LEMMA ResultsFacts ==
  ASSUME ResultsNumbered
  PROVE  Len(results) \in Nat /\ DOMAIN results = 1..Len(results)
<1>1. results \in Seq({results[i] : i \in DOMAIN results})
  BY DEF ResultsNumbered
<1> QED
  BY <1>1

\* What was traced and found stays so.
LEMMA TracesStay ==
  ASSUME fetched \subseteq fetched',
         \A i \in DOMAIN results : i \in DOMAIN results' /\ results'[i] = results[i],
         NEW r, r.refs \subseteq DOMAIN results
  PROVE  /\ \A s : Traced(r, s) => Traced(r, s)'
         /\ \A observations : FoundIn(observations, r.refs) => FoundIn(observations, r.refs)'
BY DEF Traced, FoundIn

-----------------------------------------------------------------------------
(* Steps of a run that goes on.                                            *)

\* A step that ends no run leaves the results, their review and the handoff.
LEMMA RunGoesOn ==
  ASSUME ChainInv, UNCHANGED <<results, latest, handoff, review, report>>,
         fetched \subseteq fetched', web' \subseteq Keys, run' \in RunType,
         run.stage # "idle", run'.stage # "idle", run'.id = run.id, run'.refs = run.refs,
         EvidenceShape', EvidenceIsSound'
  PROVE  ChainInv'
<1>1. ResultsNumbered' /\ ChainTypeOK'
  <2>1. ResultsNumbered'
    BY DEF ChainInv, ChainTypeOK, ResultsNumbered
  <2>2. handoff' \in HandoffType' /\ latest' \in LatestType \cup {Nothing}
    BY DEF ChainInv, ChainTypeOK, HandoffType
  <2>3. run' \in RunType'
    BY DEF RunType
  <2>4. ReviewShape'
    BY DEF ChainInv, ChainTypeOK, ReviewShape
  <2> QED
    BY <2>1, <2>2, <2>3, <2>4 DEF ChainTypeOK
<1>2. ResultsAreSound'
  <2>1. \A i \in DOMAIN results : results[i].refs \subseteq DOMAIN results
    BY ResultsFacts DEF ChainInv, ChainTypeOK, ResultsNumbered
  <2> QED
    BY <2>1, TracesStay DEF ChainInv, ResultsAreSound, ProvenanceValid
<1>3. InStep'
  BY DEF ChainInv, InStep, Latest
<1>4. ReviewFits'
  BY DEF ChainInv, ReviewFits, Latest, Verifying, Citable, Supported
<1> QED
  BY <1>1, <1>2, <1>3, <1>4 DEF ChainInv, GateRecognisesResearch

\* Evidence that has no new observation.
LEMMA EvidenceStays ==
  ASSUME ChainInv, UNCHANGED results, fetched \subseteq fetched',
         run'.id = run.id, run'.refs = run.refs,
         evidence' = evidence \/ evidence' = [evidence EXCEPT !.failed = TRUE]
  PROVE  EvidenceShape' /\ EvidenceIsSound'
<1>1. /\ DOMAIN evidence = DOMAIN NoEvidence /\ DOMAIN evidence' = DOMAIN evidence
      /\ evidence'.observations = evidence.observations /\ evidence'.sources = evidence.sources
      /\ evidence'.extracted = evidence.extracted
      /\ evidence'.failed \in BOOLEAN
  BY DEF ChainInv, ChainTypeOK, EvidenceShape, NoEvidence
<1>2. EvidenceShape'
  BY <1>1 DEF ChainInv, ChainTypeOK, EvidenceShape
<1>3. FoundIn(evidence.observations, run.refs)'
  BY <1>1 DEF ChainInv, EvidenceIsSound, FoundIn
<1>4. \A s : Traced(run, s) => Traced(run, s)'
  BY DEF Traced
<1> QED
  BY <1>1, <1>2, <1>3, <1>4 DEF ChainInv, EvidenceIsSound, SourceIsSound

\* The counters of a run.
LEMMA RunCounts ==
  ASSUME ResearchConstants, NEW r \in RunType, NEW key \in Keys
  PROVE  /\ [r EXCEPT !.counts[Tool(key)] = @ + 1] \in RunType
         /\ [r EXCEPT !.seen = @ \cup {key}] \in RunType
         /\ r.left > 0 => /\ [r EXCEPT !.left = @ - 1] \in RunType
                          /\ \A progress \in BOOLEAN : Handled(r, progress) \in RunType
<1>1. MaxBatch \in Nat
  BY DEF ResearchConstants
<1>2. Tool(key) \in DOMAIN Limit
  BY DEF Tool, Limit
<1>3. /\ r.counts \in [DOMAIN Limit -> Nat] /\ r.seen \subseteq Keys /\ r.left \in 0..MaxBatch
      /\ r.progress \in BOOLEAN
  BY DEF RunType
<1>4. [r.counts EXCEPT ![Tool(key)] = @ + 1] \in [DOMAIN Limit -> Nat]
  BY <1>2, <1>3
<1>5. [r EXCEPT !.counts[Tool(key)] = @ + 1] \in RunType
  BY <1>4 DEF RunType
<1>6. r.left > 0 => r.left - 1 \in 0..MaxBatch
  BY <1>1, <1>3
<1>7. [r EXCEPT !.seen = @ \cup {key}] \in RunType
  BY <1>3 DEF RunType
<1>8. \A progress \in BOOLEAN : (r.progress \/ progress) \in BOOLEAN
  BY <1>3
<1>9. ASSUME r.left > 0 PROVE [r EXCEPT !.left = @ - 1] \in RunType
  BY <1>6, <1>9 DEF RunType
<1>10. ASSUME r.left > 0, NEW progress \in BOOLEAN PROVE Handled(r, progress) \in RunType
  <2>1. Handled(r, progress) = [r EXCEPT !.left = r.left - 1, !.observed = TRUE,
                                         !.progress = r.progress \/ progress]
    BY Zenon DEF Handled
  <2> DEFINE left == r.left - 1
             made == r.progress \/ progress
  <2>2. left \in 0..MaxBatch /\ made \in BOOLEAN
    BY <1>6, <1>8, <1>10
  <2> HIDE DEF left, made
  <2>3. [r EXCEPT !.left = left, !.observed = TRUE, !.progress = made] \in RunType
    BY <2>2 DEF RunType
  <2> QED
    BY <2>1, <2>3 DEF left, made
<1> QED
  BY <1>5, <1>7, <1>9, <1>10

\* They leave what the run is about.
LEMMA RunIsSame ==
  ASSUME NEW r \in RunType, NEW key \in Keys, NEW progress \in BOOLEAN, NEW stop,
         NEW new \in {[r EXCEPT !.counts[Tool(key)] = @ + 1], [r EXCEPT !.seen = @ \cup {key}],
                      [r EXCEPT !.left = @ - 1], Handled(r, progress), [r EXCEPT !.stop = stop]}
  PROVE  new.id = r.id /\ new.refs = r.refs /\ new.stage = r.stage
BY DEF RunType, Handled

\* The run after a call, however it went.
LEMMA AskingRun ==
  ASSUME ResearchConstants, run \in RunType, run.stage = "batch", run.left > 0,
         NEW key \in Keys, NEW progress \in BOOLEAN,
         NEW new \in {Handled(run, progress), Handled(Counted(key), progress),
                      [Handled(Counted(key), progress) EXCEPT !.stop = "budget"],
                      Handled(Asked(key), progress), [Asked(key) EXCEPT !.left = @ - 1]}
  PROVE  new \in RunType /\ new.id = run.id /\ new.refs = run.refs /\ new.stage = "batch"
<1> DEFINE Same(r) == r \in RunType /\ r.id = run.id /\ r.refs = run.refs /\ r.stage = run.stage
<1>1. Same(Counted(key)) /\ Counted(key).left = run.left
  <2>1. Counted(key) = [run EXCEPT !.counts[Tool(key)] = @ + 1]
    BY DEF Counted
  <2>2. Counted(key) \in RunType
    <3>1. [run EXCEPT !.counts[Tool(key)] = @ + 1] \in RunType
      BY RunCounts
    <3> QED
      BY <2>1, <3>1, Zenon
  <2>3. /\ Counted(key).id = run.id /\ Counted(key).refs = run.refs
        /\ Counted(key).stage = run.stage /\ Counted(key).left = run.left
    BY <2>1 DEF RunType
  <2> QED
    BY <2>2, <2>3
<1>2. Same(Asked(key)) /\ Asked(key).left = run.left
  <2>1. Asked(key) = [Counted(key) EXCEPT !.seen = @ \cup {key}]
    BY DEF Asked
  <2> DEFINE c == Counted(key)
  <2>2. c \in RunType /\ Same(c) /\ c.left = run.left /\ Asked(key) = [c EXCEPT !.seen = @ \cup {key}]
    BY <1>1, <2>1
  <2> HIDE DEF c
  <2>3. Asked(key) \in RunType
    <3>1. [c EXCEPT !.seen = @ \cup {key}] \in RunType
      BY <2>2, RunCounts
    <3> QED
      BY <2>2, <3>1, Zenon
  <2>4. /\ Asked(key).id = c.id /\ Asked(key).refs = c.refs
        /\ Asked(key).stage = c.stage /\ Asked(key).left = c.left
    BY <2>2 DEF RunType
  <2> QED
    BY <2>2, <2>3, <2>4
<1>3. ASSUME NEW r \in RunType, Same(r), r.left = run.left
      PROVE  Same(Handled(r, progress)) /\ Same([r EXCEPT !.left = @ - 1])
  BY <1>3, RunCounts, RunIsSame
<1>4. \A r \in RunType : [r EXCEPT !.stop = "budget"] \in RunType
  BY DEF RunType, Stops
<1>5. Same(run)
  OBVIOUS
<1>6. /\ Same(Handled(run, progress)) /\ Same(Handled(Counted(key), progress))
      /\ Same(Handled(Asked(key), progress)) /\ Same([Asked(key) EXCEPT !.left = @ - 1])
  BY <1>1, <1>2, <1>3, <1>5
<1>7. Same([Handled(Counted(key), progress) EXCEPT !.stop = "budget"])
  BY <1>4, <1>6, RunIsSame
<1> QED
  BY <1>6, <1>7

\* Steps that only count, refuse, or fail.
LEMMA CountingKeeps ==
  ASSUME ResearchConstants, ChainInv, UNCHANGED <<handoff, review, report>>,
         \/ Exhausted \/ BeginRound \/ EndRound
         \/ \E stop \in {"budget", "model_response", "none"} : EndRounds(stop)
         \/ Unexposed
         \/ \E key \in Keys : Refused(key) \/ SentFailed(key) \/ SentUnrecognised(key)
  PROVE  ChainInv'
<1>1. run \in RunType /\ web \subseteq Keys /\ MaxBatch \in Nat /\ MaxRounds \in Nat
  BY DEF ChainInv, ChainTypeOK, ResearchConstants
<1>2. /\ run'.id = run.id /\ run'.refs = run.refs
      /\ UNCHANGED <<results, fetched>>
      /\ evidence' = evidence \/ evidence' = [evidence EXCEPT !.failed = TRUE]
      => EvidenceShape' /\ EvidenceIsSound'
  BY EvidenceStays
<1>3. ASSUME NEW stop \in Stops, Summarise(stop), run.stage = "round" PROVE ChainInv'
  <2>1. /\ run' \in RunType /\ run'.id = run.id /\ run'.refs = run.refs
        /\ run'.stage = "summary" /\ run.stage = "round"
    BY <1>1, <1>3 DEF Summarise, RunType
  <2> QED
    BY <1>1, <1>2, <1>3, <2>1, RunGoesOn DEF Summarise
<1>4. CASE BeginRound
  <2>1. /\ run' \in RunType /\ run'.id = run.id /\ run'.refs = run.refs
        /\ run'.stage = "batch" /\ run.stage = "round"
    <3>1. run.round \in 0..MaxRounds
      BY <1>1 DEF RunType
    <3>2. run.round + 1 \in 0..MaxRounds /\ MaxBatch \in 0..MaxBatch
      BY <1>1, <1>4, <3>1 DEF BeginRound, RunType
    <3> QED
      BY <1>1, <1>4, <3>2 DEF BeginRound, RunType
  <2> QED
    BY <1>1, <1>2, <1>4, <2>1, RunGoesOn DEF BeginRound
<1>5. CASE EndRound
  <2>1. PICK noNew \in Nat, stage \in {"summary", "round"}, stop \in Stops :
          run' = [run EXCEPT !.noNew = noNew, !.stage = stage, !.stop = stop]
    <3> DEFINE new == IF ~run.observed THEN run.noNew ELSE IF run.progress THEN 0 ELSE run.noNew + 1
               place == IF new >= 2 \/ run.stop = "budget" THEN "summary" ELSE "round"
               why == IF new >= 2 THEN "no_progress" ELSE run.stop
    <3>1. new \in Nat /\ place \in {"summary", "round"} /\ why \in Stops
      BY <1>1 DEF RunType, Stops
    <3>2. run' = [run EXCEPT !.noNew = new, !.stage = place, !.stop = why]
      BY <1>5, Zenon DEF EndRound
    <3> HIDE DEF new, place, why
    <3> QED
      BY <3>1, <3>2, Zenon
  <2>2. /\ run' \in RunType /\ run'.id = run.id /\ run'.refs = run.refs
        /\ run'.stage = stage /\ run.stage = "batch"
    BY <1>1, <1>5, <2>1 DEF EndRound, RunType
  <2> QED
    BY <1>1, <1>2, <1>5, <2>1, <2>2, RunGoesOn DEF EndRound
<1>6. ASSUME NEW key \in Keys, Refused(key) \/ SentFailed(key) \/ SentUnrecognised(key)
      PROVE  ChainInv'
  <2>1. /\ run.stage = "batch" /\ run.left > 0
        /\ web' \subseteq Keys /\ UNCHANGED <<results, latest, fetched>>
        /\ evidence' = evidence \/ evidence' = [evidence EXCEPT !.failed = TRUE]
    BY <1>1, <1>6 DEF Refused, SentFailed, SentUnrecognised, Sent, ObserveFailure
  <2>2. run' \in {Handled(Counted(key), FALSE), [Handled(Counted(key), FALSE) EXCEPT !.stop = "budget"],
                  Handled(Asked(key), FALSE), [Asked(key) EXCEPT !.left = @ - 1]}
    BY <1>6, Zenon DEF Refused, SentFailed, SentUnrecognised
  <2>3. run' \in RunType /\ run'.id = run.id /\ run'.refs = run.refs /\ run'.stage = "batch"
    <3> DEFINE Runs == {Handled(run, FALSE), Handled(Counted(key), FALSE),
                        [Handled(Counted(key), FALSE) EXCEPT !.stop = "budget"],
                        Handled(Asked(key), FALSE), [Asked(key) EXCEPT !.left = @ - 1]}
    <3>1. \A new \in Runs :
            new \in RunType /\ new.id = run.id /\ new.refs = run.refs /\ new.stage = "batch"
      BY <1>1, <2>1, AskingRun, Zenon
    <3>2. run' \in Runs
      BY <2>2, Zenon
    <3> HIDE DEF Runs
    <3> QED
      BY <3>1, <3>2
  <2>4. EvidenceShape' /\ EvidenceIsSound'
    BY <1>2, <2>1, <2>3
  <2>5. web' \subseteq Keys /\ fetched \subseteq fetched' /\ run.stage # "idle" /\ run'.stage # "idle"
    BY <2>1, <2>3
  <2> QED
    BY <2>1, <2>3, <2>4, <2>5, RunGoesOn
<1>7. CASE Unexposed
  <2>1. /\ run.stage = "batch" /\ run.left > 0 /\ run' = Handled(run, FALSE)
    BY <1>7 DEF Unexposed
  <2>2. run' \in RunType /\ run'.id = run.id /\ run'.refs = run.refs /\ run'.stage = "batch"
    <3>1. run.left - 1 \in 0..MaxBatch
      BY <1>1, <2>1 DEF RunType
    <3> QED
      BY <1>1, <2>1, <3>1 DEF Handled, RunType
  <2> QED
    BY <1>1, <1>2, <1>7, <2>1, <2>2, RunGoesOn DEF Unexposed
<1> QED
  BY <1>3, <1>4, <1>5, <1>6, <1>7 DEF Exhausted, EndRounds, Stops

LEMMA SourceFields ==
  ASSUME NEW url, NEW obs, NEW kind
  PROVE  /\ Source(url, obs, kind).url = url /\ Source(url, obs, kind).obs = obs
         /\ Source(url, obs, kind).kind = kind
BY DEF Source

LEMMA ObservationFields ==
  ASSUME NEW obs, NEW urls, NEW kind
  PROVE  /\ Observation(obs, urls, kind).id = obs /\ Observation(obs, urls, kind).urls = urls
         /\ Observation(obs, urls, kind).kind = kind
BY DEF Observation

\* A call of the web that succeeded: what it found is fetched, observed, and traced; what
\* it did not take over keeps its origin.
LEMMA ObservingKeeps ==
  ASSUME ResearchConstants, ChainInv, UNCHANGED <<handoff, review, report>>,
         NEW key \in Keys,
         \/ \E urls \in SUBSET Urls, fresh \in BOOLEAN : Searched(key, urls, fresh)
         \/ \E url \in Urls, fresh \in BOOLEAN : Extracted(key, url, fresh)
  PROVE  ChainInv'
<1>1. /\ run \in RunType /\ web \subseteq Keys /\ CallId.run = run.id
      /\ DOMAIN evidence = DOMAIN NoEvidence
  BY DEF ChainInv, ChainTypeOK, EvidenceShape, CallId
<1> DEFINE Observed(urls, taken, kind, progress) ==
             /\ taken \subseteq urls /\ run' = Handled(Asked(key), progress) /\ Sent(key)
             /\ fetched' = fetched \cup {<<CallId, u>> : u \in urls}
             /\ evidence'.observations = evidence.observations \cup {Observation(CallId, urls, kind)}
             /\ DOMAIN evidence'.sources = DOMAIN evidence.sources \cup taken
             /\ \A u \in taken : evidence'.sources[u] = Source(u, CallId, kind)
             /\ \A u \in DOMAIN evidence.sources \ taken : evidence'.sources[u] = evidence.sources[u]
             /\ DOMAIN evidence' = DOMAIN evidence /\ evidence'.failed = evidence.failed
             /\ evidence'.extracted \subseteq evidence.extracted \cup urls
<1>2. PICK urls \in SUBSET Urls, taken \in SUBSET Urls, kind \in {"search", "extract"},
           progress \in BOOLEAN : Observed(urls, taken, kind, progress)
  <2>1. ASSUME NEW urls \in SUBSET Urls, NEW fresh \in BOOLEAN, Searched(key, urls, fresh)
        PROVE  \E taken \in SUBSET Urls, progress \in BOOLEAN :
                 Observed(urls, taken, "search", progress)
    <3> DEFINE taken == {u \in urls : u \in DOMAIN evidence.sources => evidence.sources[u].kind = "search"}
               progress == fresh \/ ~(urls \subseteq DOMAIN evidence.sources)
    <3>1. taken \in SUBSET Urls /\ taken \subseteq urls /\ progress \in BOOLEAN
      OBVIOUS
    <3>2. /\ run' = Handled(Asked(key), progress) /\ Sent(key)
          /\ fetched' = fetched \cup {<<CallId, u>> : u \in urls}
          /\ evidence' = ObserveSearch(CallId, urls)
      BY <2>1, Zenon DEF Searched
    <3>3. /\ evidence'.observations = evidence.observations \cup {Observation(CallId, urls, "search")}
          /\ evidence'.sources = [u \in DOMAIN evidence.sources \cup urls |->
                IF u \in urls /\ (u \in DOMAIN evidence.sources => evidence.sources[u].kind = "search")
                  THEN Source(u, CallId, "search") ELSE evidence.sources[u]]
          /\ DOMAIN evidence' = DOMAIN evidence /\ evidence'.failed = evidence.failed
          /\ evidence'.extracted = evidence.extracted
      BY <1>1, <3>2 DEF ObserveSearch, NoEvidence
    <3>4. Observed(urls, taken, "search", progress)
      BY <3>1, <3>2, <3>3
    <3> QED
      BY <3>1, <3>4
  <2>2. ASSUME NEW url \in Urls, NEW fresh \in BOOLEAN, Extracted(key, url, fresh)
        PROVE  \E progress \in BOOLEAN : Observed({url}, {url}, "extract", progress)
    <3> DEFINE progress == fresh \/ url \notin evidence.extracted
    <3>1. /\ run' = Handled(Asked(key), progress) /\ Sent(key)
          /\ fetched' = fetched \cup {<<CallId, url>>}
          /\ evidence' = ObserveExtract(CallId, url)
      BY <2>2, Zenon DEF Extracted
    <3>2. /\ evidence'.observations = evidence.observations \cup {Observation(CallId, {url}, "extract")}
          /\ evidence'.sources = SetSource(evidence.sources, Source(url, CallId, "extract"))
          /\ DOMAIN evidence' = DOMAIN evidence /\ evidence'.failed = evidence.failed
          /\ evidence'.extracted = evidence.extracted \cup {url}
      BY <1>1, <3>1 DEF ObserveExtract, NoEvidence
    <3>3. /\ DOMAIN evidence'.sources = DOMAIN evidence.sources \cup {url}
          /\ evidence'.sources[url] = Source(url, CallId, "extract")
          /\ \A u \in DOMAIN evidence.sources \ {url} : evidence'.sources[u] = evidence.sources[u]
      BY <3>2 DEF SetSource, Source
    <3>4. Observed({url}, {url}, "extract", progress)
      BY <3>1, <3>2, <3>3
    <3> QED
      BY <3>4
  <2> HIDE DEF Observed
  <2>3. \A url \in Urls : {url} \in SUBSET Urls
    OBVIOUS
  <2>4. CASE \E urls \in SUBSET Urls, fresh \in BOOLEAN : Searched(key, urls, fresh)
    BY <2>1, <2>4
  <2>5. CASE \E url \in Urls, fresh \in BOOLEAN : Extracted(key, url, fresh)
    BY <2>2, <2>3, <2>5
  <2> QED
    BY <2>4, <2>5
<1>3. /\ taken \subseteq urls /\ urls \subseteq Urls
      /\ evidence'.observations = evidence.observations \cup {Observation(CallId, urls, kind)}
      /\ DOMAIN evidence'.sources = DOMAIN evidence.sources \cup taken
      /\ \A u \in taken : evidence'.sources[u] = Source(u, CallId, kind)
      /\ \A u \in DOMAIN evidence.sources \ taken : evidence'.sources[u] = evidence.sources[u]
      /\ DOMAIN evidence' = DOMAIN evidence /\ evidence'.failed = evidence.failed
      /\ evidence'.extracted \subseteq evidence.extracted \cup urls
  BY <1>2, Zenon
<1>4. /\ run.stage = "batch" /\ run.left > 0 /\ web' \subseteq Keys /\ UNCHANGED <<results, latest>>
      /\ run' = Handled(Asked(key), progress)
  BY <1>1, <1>2, Zenon DEF Sent, Keys
<1>5. fetched \subseteq fetched' /\ \A u \in taken : <<CallId, u>> \in fetched'
  BY <1>2, Zenon
<1> HIDE DEF Observed
<1>6. run' \in RunType /\ run'.id = run.id /\ run'.refs = run.refs /\ run'.stage = "batch"
  BY <1>1, <1>4, AskingRun
<1>7. EvidenceShape'
  <2>1. \A u \in taken : evidence'.sources[u].kind = kind
    BY <1>3, SourceFields
  <2> QED
    BY <1>1, <1>3, <2>1 DEF ChainInv, ChainTypeOK, EvidenceShape, Kinds, NoEvidence
<1>8. FoundIn(evidence.observations, run.refs)'
  <2>1. Observation(CallId, urls, kind).kind # "history"
    BY ObservationFields
  <2> QED
    BY <1>3, <1>4, <1>6, <2>1 DEF ChainInv, EvidenceIsSound, FoundIn
<1>9. ASSUME NEW u \in taken PROVE SourceIsSound(u)'
  <2> DEFINE s == evidence.sources[u]
             o == Observation(CallId, urls, kind)
  <2>1. s'.url = u /\ s'.obs = CallId /\ s'.kind = kind
    BY <1>3, SourceFields
  <2>2. <<CallId, u>> \in fetched' /\ kind # "history"
    BY <1>5
  <2>3. Traced(run, s)'
    BY <1>1, <1>6, <2>1, <2>2 DEF Traced
  <2>4. o \in evidence'.observations /\ o.id = CallId /\ u \in o.urls /\ o.kind = kind
    BY <1>3, ObservationFields
  <2> QED
    BY <2>1, <2>3, <2>4 DEF SourceIsSound
<1>10. ASSUME NEW u \in DOMAIN evidence.sources \ taken PROVE SourceIsSound(u)'
  <2>1. \A s : Traced(run, s) => Traced(run, s)'
    BY <1>4, <1>5, <1>6 DEF Traced
  <2>2. SourceIsSound(u) /\ evidence'.sources[u] = evidence.sources[u]
    BY <1>3 DEF ChainInv, EvidenceIsSound
  <2> QED
    BY <1>3, <2>1, <2>2 DEF SourceIsSound
<1>11. EvidenceIsSound'
  <2>1. \A u \in DOMAIN evidence'.sources : u \in taken \/ u \in DOMAIN evidence.sources \ taken
    BY <1>3
  <2> QED
    BY <1>8, <1>9, <1>10, <2>1 DEF EvidenceIsSound
<1> QED
  BY <1>1, <1>4, <1>5, <1>6, <1>7, <1>11, RunGoesOn

-----------------------------------------------------------------------------
(* A run that delivers.                                                    *)

\* What the summary makes of the evidence: cited sources, or the best few.
LEMMA EvidentFacts ==
  ASSUME NEW catalog \in SUBSET DOMAIN evidence.sources, NEW fallback \in SUBSET catalog,
         NEW draft, draft.cited \subseteq catalog
  PROVE  LET x == Evident(catalog, draft, fallback)
         IN  /\ x.id = run.id /\ x.refs = run.refs /\ x.observations = evidence.observations
             /\ x.cited \subseteq catalog
             /\ \E used \in SUBSET DOMAIN evidence.sources :
                  /\ x.sources = {evidence.sources[u] : u \in used} /\ x.cited \subseteq used
<1> DEFINE found == IF catalog = {} THEN {} ELSE draft.cited
           used == IF found = {} THEN fallback ELSE found
           x == Evident(catalog, draft, fallback)
<1>1. /\ x.id = run.id /\ x.refs = run.refs /\ x.observations = evidence.observations
      /\ x.cited = found /\ x.sources = {evidence.sources[u] : u \in used}
  BY DEF Evident
<1>2. used \in SUBSET DOMAIN evidence.sources /\ found \subseteq used /\ found \subseteq catalog
  OBVIOUS
<1> HIDE DEF found, used, x
<1> QED
  BY <1>1, <1>2 DEF x

\* A result made of sound evidence is sound.
LEMMA ResultIsSound ==
  ASSUME ChainInv, NEW x, x.id = run.id, x.refs = run.refs,
         x.observations = evidence.observations,
         NEW used \in SUBSET DOMAIN evidence.sources,
         x.sources = {evidence.sources[u] : u \in used}, x.cited \subseteq used
  PROVE  /\ ProvenanceValid(x) /\ \A s \in x.sources : Traced(x, s) /\ s.url \in Urls
         /\ FoundIn(x.observations, x.refs)
<1>1. \A u \in used : SourceIsSound(u) /\ u \in Urls
  BY DEF ChainInv, EvidenceIsSound, ChainTypeOK, EvidenceShape
<1>2. \A s : Traced(run, s) => Traced(x, s)
  BY DEF Traced
<1>3. ASSUME NEW s \in x.sources
      PROVE  /\ s.url \in used /\ Traced(x, s) /\ s.url \in Urls
             /\ \E o \in x.observations : o.id = s.obs /\ s.url \in o.urls /\ o.kind = s.kind
  <2>1. PICK u \in used : s = evidence.sources[u]
    BY <1>3
  <2> QED
    BY <1>1, <1>2, <2>1 DEF SourceIsSound
<1>4. ASSUME NEW u \in used PROVE \E s \in x.sources : s.url = u
  BY <1>1, <1>4 DEF SourceIsSound
<1>5. ProvenanceValid(x)
  BY <1>3, <1>4 DEF ProvenanceValid
<1> QED
  BY <1>3, <1>5 DEF ChainInv, EvidenceIsSound

LEMMA DeliveringKeeps ==
  ASSUME ResearchConstants, ChainInv, UNCHANGED <<review, report>>,
         NEW draft \in Drafts, Synthesise(draft),
         handoff' = [handoff EXCEPT !.status = "delivered", !.result = Latest'.id]
  PROVE  ChainInv'
<1>1. PICK catalog, fallback, d, finalization :
        /\ catalog \in SUBSET DOMAIN evidence.sources /\ fallback \in SUBSET catalog
        /\ finalization \in {"completed", "failed"}
        /\ d.cited \subseteq catalog /\ d.delivery \in {"ready", "partial", "none"}
        /\ Deliver(catalog, d, finalization, fallback)
  <2>1. PICK catalog \in Catalogs : \E fallback \in SUBSET catalog :
          IF SummaryAccepted(draft, catalog)
            THEN Deliver(catalog, draft, "completed", fallback)
            ELSE Deliver(catalog, Failed(catalog), "failed", fallback)
    BY DEF Synthesise
  <2>2. PICK fallback \in SUBSET catalog :
          IF SummaryAccepted(draft, catalog)
            THEN Deliver(catalog, draft, "completed", fallback)
            ELSE Deliver(catalog, Failed(catalog), "failed", fallback)
    BY <2>1
  <2>3. catalog \in SUBSET DOMAIN evidence.sources
    BY <2>1 DEF Catalogs
  <2>4. SummaryAccepted(draft, catalog) => draft.cited \subseteq catalog
    BY DEF SummaryAccepted
  <2>5. draft.delivery \in {"ready", "partial", "none"}
    BY DEF Drafts
  <2>6. /\ Failed(catalog).cited \subseteq catalog
        /\ Failed(catalog).delivery \in {"ready", "partial", "none"}
    BY DEF Failed
  <2>7. CASE SummaryAccepted(draft, catalog)
    BY <2>2, <2>3, <2>4, <2>5, <2>7
  <2>8. CASE ~SummaryAccepted(draft, catalog)
    BY <2>2, <2>3, <2>6, <2>8
  <2> QED
    BY <2>7, <2>8
<1> PICK x : x = Evident(catalog, d, fallback)
  OBVIOUS
<1>2. /\ x.id = run.id /\ x.refs = run.refs /\ x.observations = evidence.observations
      /\ \E used \in SUBSET DOMAIN evidence.sources :
           x.sources = {evidence.sources[u] : u \in used} /\ x.cited \subseteq used
  BY <1>1, EvidentFacts
<1>3. /\ ProvenanceValid(x) /\ \A s \in x.sources : Traced(x, s) /\ s.url \in Urls
      /\ FoundIn(x.observations, x.refs)
  BY <1>2, ResultIsSound
<1>4. /\ results' = Append(results, x) /\ latest' = Outcome(catalog, d, finalization)
      /\ run' = Idle(run.id) /\ evidence' = NoEvidence /\ UNCHANGED <<web, fetched>>
  BY <1>1 DEF Deliver
<1>5. /\ run.stage # "idle" /\ run.id = Len(results) + 1 /\ run.id \in 0..MaxRuns
      /\ run.refs \subseteq 1..(run.id - 1) /\ run.stop \in Stops
      /\ handoff.status = "pending" /\ handoff.refs = run.refs /\ handoff.id = run.id
      /\ handoff.todo = run.id
      /\ review = NoReview
  BY DEF ChainInv, ChainTypeOK, InStep, ReviewFits, Synthesise, RunType
<1>6. ResultsNumbered
  BY DEF ChainInv, ChainTypeOK
<1>7. /\ Len(results) \in Nat /\ DOMAIN results = 1..Len(results)
      /\ Len(results') = Len(results) + 1 /\ DOMAIN results' = 1..(Len(results) + 1)
      /\ \A i \in DOMAIN results : results'[i] = results[i]
      /\ results'[Len(results) + 1] = x /\ Latest' = x
      /\ results' \in Seq({results'[i] : i \in DOMAIN results'})
  BY <1>4, <1>6, OneMoreResult
<1>8. \A i \in DOMAIN results' : i \in DOMAIN results \/ (results'[i] = x /\ i = run.id)
  BY <1>5, <1>7
<1>9. ResultsNumbered'
  <2>1. ASSUME NEW i \in DOMAIN results'
        PROVE  /\ results'[i].id = i /\ results'[i].refs \subseteq 1..(i - 1)
               /\ \A s \in results'[i].sources : s.url \in Urls
    <3>1. CASE i \in DOMAIN results
      BY <1>6, <1>7, <3>1 DEF ResultsNumbered
    <3>2. CASE results'[i] = x /\ i = run.id
      BY <1>2, <1>3, <1>5, <3>2
    <3> QED
      BY <1>8, <3>1, <3>2
  <2>2. Len(results') <= MaxRuns
    BY <1>5, <1>7
  <2> QED
    BY <1>7, <2>1, <2>2 DEF ResultsNumbered
<1>10. ResultsAreSound'
  <2>1. /\ fetched \subseteq fetched' /\ x.refs \subseteq DOMAIN results
        /\ \A i \in DOMAIN results : i \in DOMAIN results' /\ results'[i] = results[i]
    BY <1>2, <1>4, <1>5, <1>7
  <2>2. /\ \A s \in x.sources : Traced(x, s)'
        /\ FoundIn(x.observations, x.refs)'
    BY <1>3, <2>1, TracesStay
  <2>3. ASSUME NEW i \in DOMAIN results
        PROVE  /\ ProvenanceValid(results[i])'
               /\ \A s \in results'[i].sources : Traced(results[i], s)'
               /\ FoundIn(results[i].observations, results[i].refs)'
    <3>1. PICK r : r = results[i] /\ r = results'[i]
      BY <1>7
    <3>2. r.refs \subseteq DOMAIN results
      <4>1. r.refs \subseteq 1..(i - 1)
        BY <1>6, <3>1 DEF ResultsNumbered
      <4> QED
        BY SMTT(40), <1>7, <4>1
    <3>3. /\ ProvenanceValid(r) /\ \A s \in r.sources : Traced(r, s)
          /\ FoundIn(r.observations, r.refs)
      BY <3>1 DEF ChainInv, ResultsAreSound
    <3>4. /\ \A s \in r.sources : Traced(r, s)'
          /\ FoundIn(r.observations, r.refs)'
      <4>1. /\ \A s : Traced(r, s) => Traced(r, s)'
            /\ \A observations : FoundIn(observations, r.refs) => FoundIn(observations, r.refs)'
        BY <2>1, <3>2, TracesStay
      <4> QED
        BY <3>3, <4>1
    <3> QED
      BY <3>1, <3>3, <3>4
  <2> QED
    BY <1>3, <1>7, <1>8, <2>2, <2>3 DEF ResultsAreSound
<1>11. run' \in RunType' /\ run'.stage = "idle" /\ run'.id = run.id /\ run'.refs = {}
  <2>1. [tool \in DOMAIN Limit |-> 0] \in [DOMAIN Limit -> Nat]
    OBVIOUS
  <2>2. 0 \in 0..MaxRounds /\ 0 \in 0..MaxBatch
    BY DEF ResearchConstants
  <2> QED
    BY <1>4, <1>5, <2>1, <2>2 DEF Idle, NewRun, RunType, Stops
<1>12. /\ handoff' \in HandoffType' /\ handoff'.status = "delivered"
       /\ handoff'.id = run.id /\ handoff'.todo = run.id /\ handoff'.refs = run.refs
       /\ handoff'.result = run.id
  <2>1. Latest'.id = run.id /\ handoff.refs \subseteq DOMAIN results'
    BY <1>2, <1>5, <1>7
  <2>2. handoff \in HandoffType
    BY DEF ChainInv, ChainTypeOK
  <2> QED
    BY <1>5, <2>1, <2>2 DEF HandoffType
<1>13. latest' \in LatestType
  BY <1>1, <1>4, <1>5 DEF Outcome, LatestType
<1>14. EvidenceShape' /\ EvidenceIsSound'
  BY <1>4 DEF EvidenceShape, EvidenceIsSound, NoEvidence, FoundIn
<1>15. ReviewFits' /\ ReviewShape'
  BY <1>5, <1>12 DEF ReviewFits, ReviewShape, NoReview, Verifying, ChainInv, ChainTypeOK
<1>16. InStep'
  BY <1>2, <1>5, <1>7, <1>11, <1>12 DEF InStep
<1>17. web' \subseteq Keys /\ GateRecognisesResearch'
  BY <1>4 DEF ChainInv, ChainTypeOK, GateRecognisesResearch
<1> QED
  BY <1>9, <1>10, <1>11, <1>12, <1>13, <1>14, <1>15, <1>16, <1>17 DEF ChainInv, ChainTypeOK

-----------------------------------------------------------------------------
(* A run that begins, with earlier results for its history.                *)

\* Evidence that consists of what these results have.
DrawnFrom(refs, e) ==
  /\ DOMAIN e = DOMAIN NoEvidence /\ e.extracted = {} /\ e.failed = FALSE
  /\ FoundIn(e.observations, refs)
  /\ \A u \in DOMAIN e.sources :
       /\ u \in Urls /\ e.sources[u].url = u /\ e.sources[u].kind = "history"
       /\ e.sources[u].obs.record \in refs
       /\ \E x \in results[e.sources[u].obs.record].sources :
            x.obs = e.sources[u].obs.of /\ x.url = u
       /\ \E o \in e.observations :
            o.id = e.sources[u].obs /\ u \in o.urls /\ o.kind = "history"

\* Each reused source is one of the last record that has its URL, and an observation
\* imported from that record names it.
LEMMA ImportIsSound ==
  ASSUME ResultsNumbered, NEW refs \in SUBSET DOMAIN results
  PROVE  DrawnFrom(refs, ImportHistory(refs))
<1> DEFINE known == UNION {{s.url : s \in results[r].sources} : r \in Authorized(refs)}
           of(url) == {r \in Authorized(refs) : \E s \in results[r].sources : s.url = url}
           last(url) == CHOOSE r \in of(url) : \A q \in of(url) : q <= r
           source(url) == CHOOSE s \in results[last(url)].sources : s.url = url
           seen == UNION {Imported(r, results[r]) : r \in Authorized(refs)}
           sources == [u \in known |-> Source(u, HistoryId(last(u), source(u).obs), "history")]
           e == ImportHistory(refs)
<1>1. Len(results) \in Nat /\ DOMAIN results = 1..Len(results)
  BY ResultsFacts
<1>2. Authorized(refs) \subseteq refs
  BY DEF Authorized
<1>3. e = [NoEvidence EXCEPT !.observations = seen, !.sources = sources]
  BY Zenon DEF ImportHistory
<1>4. /\ DOMAIN e = DOMAIN NoEvidence /\ e.extracted = {} /\ e.failed = FALSE
      /\ e.observations = seen /\ e.sources = sources
  <2> HIDE DEF seen, sources, e
  <2> QED
    BY <1>3 DEF NoEvidence
<1>5. ASSUME NEW r \in Authorized(refs), NEW s \in results[r].sources
      PROVE  LET o == Observation(HistoryId(r, s.obs), UrlsOf(results[r], s.obs), "history")
             IN  o \in seen /\ s.url \in o.urls /\ o.id = HistoryId(r, s.obs) /\ o.kind = "history"
  <2>1. s.url \in UrlsOf(results[r], s.obs)
    BY DEF UrlsOf
  <2>2. Observation(HistoryId(r, s.obs), UrlsOf(results[r], s.obs), "history") \in Imported(r, results[r])
    BY DEF Imported
  <2> QED
    BY <2>1, <2>2, ObservationFields
<1>6. ASSUME NEW o \in seen
      PROVE  /\ o.id.record \in refs
             /\ \A u \in o.urls : \E s \in results[o.id.record].sources : s.obs = o.id.of /\ s.url = u
  <2>1. PICK r \in Authorized(refs) : o \in Imported(r, results[r])
    BY <1>6
  <2>2. PICK s \in results[r].sources :
          o = Observation(HistoryId(r, s.obs), UrlsOf(results[r], s.obs), "history")
    BY <2>1 DEF Imported
  <2>3. o.id = HistoryId(r, s.obs) /\ o.urls = UrlsOf(results[r], s.obs)
    BY <2>2, ObservationFields
  <2>4. o.id.record = r /\ o.id.of = s.obs
    BY <2>3 DEF HistoryId
  <2> QED
    BY <1>2, <2>3, <2>4 DEF UrlsOf
<1>7. ASSUME NEW u \in known
      PROVE  /\ last(u) \in Authorized(refs) /\ source(u) \in results[last(u)].sources
             /\ source(u).url = u
  <2>1. of(u) # {} /\ of(u) \in SUBSET (1..Len(results))
    BY <1>1, <1>2
  <2> HIDE DEF of
  <2>2. \E m \in of(u) : \A q \in of(u) : q <= m
    BY <1>1, <2>1, Greatest
  <2>3. last(u) \in of(u)
    BY <2>2
  <2> HIDE DEF last
  <2>4. last(u) \in Authorized(refs) /\ \E s \in results[last(u)].sources : s.url = u
    BY <2>3 DEF of
  <2> QED
    BY <2>4
<1>8. ASSUME NEW u \in known
      PROVE  /\ u \in Urls /\ sources[u].url = u /\ sources[u].kind = "history"
             /\ sources[u].obs = HistoryId(last(u), source(u).obs)
             /\ sources[u].obs.record = last(u) /\ sources[u].obs.of = source(u).obs
  <2> HIDE DEF known, last, source
  <2>1. sources[u] = Source(u, HistoryId(last(u), source(u).obs), "history")
    OBVIOUS
  <2>2. u \in Urls
    BY <1>2, <1>7 DEF ResultsNumbered
  <2> HIDE DEF sources
  <2> QED
    BY <2>1, <2>2, SourceFields DEF HistoryId
<1>9. DOMAIN sources = known
  OBVIOUS
<1> HIDE DEF known, of, last, source, seen, sources, e
<1>10. FoundIn(e.observations, refs)
  BY <1>4, <1>6 DEF FoundIn
<1>11. ASSUME NEW u \in DOMAIN e.sources
       PROVE  /\ u \in Urls /\ e.sources[u].url = u /\ e.sources[u].kind = "history"
              /\ e.sources[u].obs.record \in refs
              /\ \E x \in results[e.sources[u].obs.record].sources :
                   x.obs = e.sources[u].obs.of /\ x.url = u
              /\ \E o \in e.observations :
                   o.id = e.sources[u].obs /\ u \in o.urls /\ o.kind = "history"
  <2>1. u \in known
    BY <1>4, <1>9
  <2>2. \E o \in seen : o.id = HistoryId(last(u), source(u).obs) /\ u \in o.urls /\ o.kind = "history"
    BY <1>5, <1>7, <2>1
  <2> QED
    BY <1>2, <1>4, <1>7, <1>8, <2>1, <2>2
<1> QED
  BY <1>4, <1>10, <1>11 DEF e, DrawnFrom

LEMMA DelegateKeeps ==
  ASSUME ResearchConstants, VerifierConstants, ChainInv,
         NEW refs \in SUBSET DOMAIN results, NEW level \in Level,
         Delegate(refs, level)
  PROVE  ChainInv'
<1> PICK id : id = Len(results) + 1
  OBVIOUS
<1>1. /\ Len(results) \in Nat /\ DOMAIN results = 1..Len(results) /\ id \in 0..MaxRuns
      /\ ResultsNumbered /\ UNCHANGED <<results, web, fetched>>
  BY ResultsFacts DEF ChainInv, ChainTypeOK, Delegate, Start, ResearchConstants
<1>2. /\ run' = NewRun(id, refs) /\ latest' = Nothing /\ evidence' = ImportHistory(refs)
      /\ handoff' = Handoff(id, level, refs) /\ review' = NoReview /\ report' = NoReport
  BY DEF Delegate, Start
<1>3. /\ run' \in RunType' /\ run'.id = id /\ run'.refs = refs /\ run'.stage = "round"
  <2>1. [tool \in DOMAIN Limit |-> 0] \in [DOMAIN Limit -> Nat]
    OBVIOUS
  <2>2. 0 \in 0..MaxRounds /\ 0 \in 0..MaxBatch
    BY DEF ResearchConstants
  <2> QED
    BY <1>1, <1>2, <2>1, <2>2 DEF NewRun, RunType, Stops
<1>4. /\ handoff' \in HandoffType' /\ handoff'.id = id /\ handoff'.todo = id
      /\ handoff'.refs = refs /\ handoff'.status = "pending"
  <2>1. 0 \in 0..MaxRuns
    BY <1>1
  <2> QED
    BY <1>1, <1>2, <2>1 DEF Handoff, HandoffType
<1>5. EvidenceShape' /\ EvidenceIsSound'
  <2>1. DrawnFrom(refs, evidence')
    BY <1>1, <1>2, ImportIsSound
  <2>2. EvidenceShape'
    BY <2>1 DEF EvidenceShape, Kinds, DrawnFrom
  <2>3. FoundIn(evidence.observations, run.refs)'
    BY <1>1, <1>3, <2>1 DEF FoundIn, DrawnFrom
  <2>4. ASSUME NEW u \in DOMAIN evidence'.sources PROVE SourceIsSound(u)'
    <3>1. evidence'.sources[u].obs.record < id
      BY <1>1, <2>1 DEF DrawnFrom
    <3>2. Traced(run, evidence.sources[u])'
      BY SMTT(40), <1>1, <1>3, <2>1, <3>1 DEF Traced, DrawnFrom
    <3> QED
      BY <2>1, <3>2 DEF SourceIsSound, DrawnFrom
  <2> QED
    BY <2>2, <2>3, <2>4 DEF EvidenceIsSound
<1>6. ResultsNumbered' /\ ResultsAreSound'
  <2>1. fetched' = fetched /\ results' = results
    BY <1>1
  <2>2. ResultsNumbered'
    BY <1>1, <2>1 DEF ResultsNumbered
  <2>3. ResultsAreSound
    BY DEF ChainInv
  <2> QED
    BY <2>1, <2>2, <2>3 DEF ResultsAreSound, ProvenanceValid, Traced, FoundIn
<1>7. InStep'
  BY <1>1, <1>3, <1>4 DEF InStep
<1>8. ReviewShape' /\ ReviewFits'
  BY <1>2 DEF ReviewShape, ReviewFits, NoReview, Verifying, VerifierConstants
<1>9. web' \subseteq Keys /\ latest' \in LatestType' \cup {Nothing} /\ GateRecognisesResearch'
  BY <1>1, <1>2 DEF ChainInv, ChainTypeOK, GateRecognisesResearch, NoReport
<1> QED
  BY <1>3, <1>4, <1>5, <1>6, <1>7, <1>8, <1>9 DEF ChainInv, ChainTypeOK

-----------------------------------------------------------------------------
(* The review.                                                             *)

\* Steps of the review leave the runs, the results and the handoff.
LEMMA ReviewGoesOn ==
  ASSUME ChainInv, UNCHANGED <<researchVars, handoff, report>>, ReviewShape', ReviewFits'
  PROVE  ChainInv'
<1>1. UNCHANGED <<web, run, evidence, results, latest, fetched, handoff, report>>
  BY DEF researchVars
<1>2. ChainTypeOK'
  BY <1>1 DEF ChainInv, ChainTypeOK, ResultsNumbered, RunType, HandoffType, EvidenceShape
<1>3. ResultsAreSound' /\ EvidenceIsSound'
  BY <1>1 DEF ChainInv, ResultsAreSound, EvidenceIsSound, SourceIsSound, ProvenanceValid, Traced, FoundIn
<1>4. InStep' /\ GateRecognisesResearch'
  BY <1>1 DEF ChainInv, InStep, Latest, GateRecognisesResearch
<1> QED
  BY <1>2, <1>3, <1>4 DEF ChainInv

\* The verifier is given the sources of the result.
LEMMA StartReviewKeeps ==
  ASSUME VerifierConstants, ChainInv, StartReview
  PROVE  ChainInv'
<1> PICK records :
      /\ DOMAIN records = {<<"source", x.url>> : x \in Latest.sources}
      /\ review' = [NoReview EXCEPT !.stage = "round", !.records = records]
  BY DEF StartReview, BeginReview
<1>1. /\ DOMAIN review' = DOMAIN NoReview /\ review'.stage = "round" /\ review'.records = records
      /\ review'.observed = {} /\ review'.submitted = << >> /\ review'.count = 0
      /\ review'.round = 0 /\ review'.left = 0 /\ review'.made = 0 /\ review'.cached = {}
  BY DEF NoReview
<1>2. UNCHANGED <<results, handoff, researchVars, report>> /\ handoff.status = "delivered"
  BY DEF StartReview, researchVars
<1>3. ReviewShape'
  BY <1>1 DEF ReviewShape, VerifierConstants
<1>4. ReviewFits'
  BY <1>1, <1>2 DEF ReviewFits, Latest, Verifying
<1> QED
  BY <1>2, <1>3, <1>4, ReviewGoesOn

\* The verifier reads, probes, counts, and at last submits.
LEMMA VerifyKeeps ==
  ASSUME VerifierConstants, ChainInv, Verify
  PROVE  ChainInv'
<1>1. /\ DOMAIN review = DOMAIN NoReview /\ review.stage \in {"round", "batch"}
      /\ review.count \in Nat /\ review.round \in Nat /\ review.left \in 0..MaxVerifyBatch
      /\ review.made \in Nat /\ review.cached \subseteq Probes
      /\ review.submitted = << >> /\ review.observed \subseteq DOMAIN review.records
  BY DEF ChainInv, ChainTypeOK, ReviewShape, ReviewFits, Verify, Verifying
<1>2. UNCHANGED <<results, handoff, researchVars, report>> /\ handoff.status = "delivered"
  <2>1. review # NoReview
    BY <1>1 DEF NoReview
  <2> QED
    BY <2>1 DEF Verify, researchVars, ChainInv, ReviewFits
<1>3. MaxEvidenceCalls \in Nat /\ MaxVerifyBatch \in Nat
  BY DEF VerifierConstants
<1>4. ASSUME DOMAIN review' = DOMAIN review, review'.stage \in {"round", "batch", "done"},
             review'.count \in Nat, review'.round \in Nat, review'.left \in 0..MaxVerifyBatch,
             review'.made \in Nat, review'.cached \subseteq Probes,
             review'.observed \subseteq DOMAIN review'.records,
             \A r \in DOMAIN review'.records : r \in DOMAIN review.records \/ r[1] # "source",
             Verifying' => review'.submitted = << >>,
             \A i \in DOMAIN review'.submitted : Citable(review.submitted[i])'
      PROVE  ChainInv'
  <2>1. ReviewShape'
    BY <1>1, <1>4 DEF ReviewShape
  <2>2. ReviewFits'
    BY <1>1, <1>2, <1>4 DEF ChainInv, ReviewFits, Latest
  <2> QED
    BY <1>2, <2>1, <2>2, ReviewGoesOn
<1>5. CASE GatheringFails \/ ReviewGivesUp \/ BeginBatch \/ EndBatch
  <2>1. /\ DOMAIN review' = DOMAIN review /\ review'.stage \in {"round", "batch", "done"}
        /\ review'.count \in Nat /\ review'.round \in Nat /\ review'.left \in 0..MaxVerifyBatch
        /\ UNCHANGED <<review.made, review.cached, review.observed, review.records>>
        /\ review'.submitted = << >>
    <3>1. CASE GatheringFails
      BY <1>1, <1>3, <3>1 DEF GatheringFails, NoReview
    <3>2. CASE ReviewGivesUp
      BY <1>1, <3>2 DEF ReviewGivesUp, EndReview, NoReview
    <3>3. CASE BeginBatch
      BY <1>1, <1>3, <3>3 DEF BeginBatch, NoReview
    <3>4. CASE EndBatch
      BY <1>1, <3>4 DEF EndBatch, NoReview
    <3> QED
      BY <1>5, <3>1, <3>2, <3>3, <3>4
  <2> QED
    BY <1>1, <1>4, <2>1
<1>6. CASE CallRejected \/ NothingNew \/ \E id \in DOMAIN review.records : ReadEvidence(id)
  <2>1. review.left > 0 => review.left - 1 \in 0..MaxVerifyBatch
    BY <1>1, <1>3
  <2>2. /\ DOMAIN review' = DOMAIN review /\ review'.stage = review.stage
        /\ review'.count \in Nat /\ review'.round \in Nat /\ review'.left \in 0..MaxVerifyBatch
        /\ UNCHANGED <<review.made, review.cached, review.records, review.submitted>>
        /\ review'.observed \subseteq DOMAIN review.records
    <3>1. CASE CallRejected
      BY <1>1, <2>1, <3>1 DEF CallRejected, NoReview
    <3>2. CASE NothingNew
      BY <1>1, <2>1, <3>2 DEF NothingNew, Gathering, Gathered, NoReview
    <3>3. CASE \E id \in DOMAIN review.records : ReadEvidence(id)
      BY <1>1, <2>1, <3>3 DEF ReadEvidence, Gathering, Gathered, NoReview
    <3> QED
      BY <1>6, <3>1, <3>2, <3>3
  <2> QED
    BY <1>1, <1>4, <2>2
<1>7. ASSUME NEW request \in Probes, NEW answered \in BOOLEAN, NEW usable \in BOOLEAN,
             Probe(request, answered, usable)
      PROVE  ChainInv'
  <2> DEFINE id == <<"verification", review.made + 1>>
  <2>1. review.left > 0 /\ review.left - 1 \in 0..MaxVerifyBatch
    BY <1>1, <1>3, <1>7 DEF Probe, Gathering
  <2>2. /\ DOMAIN review' = DOMAIN review /\ review'.stage = review.stage
        /\ review'.count \in Nat /\ review'.round \in Nat /\ review'.left \in 0..MaxVerifyBatch
        /\ review'.made \in Nat /\ review'.cached \subseteq Probes
        /\ review'.submitted = review.submitted
        /\ review'.observed = review.observed \cup {id}
        /\ DOMAIN review'.records = DOMAIN review.records \cup {id}
    <3> HIDE DEF id
    <3>1. review' = [Gathered EXCEPT
               !.made = @ + 1, !.observed = @ \cup {id},
               !.cached = IF answered THEN @ \cup {request} ELSE @,
               !.records = [r \in DOMAIN @ \cup {id} |-> IF r = id THEN usable ELSE @[r]]]
      BY <1>7, Zenon DEF Probe, id
    <3> QED
      BY <1>1, <2>1, <3>1 DEF Gathered, NoReview
  <2>3. id[1] # "source"
    OBVIOUS
  <2> HIDE DEF id
  <2> QED
    BY <1>1, <1>4, <2>2, <2>3
<1>8. ASSUME NEW a, Valid(handoff.criteria, a),
             review' = [review EXCEPT !.stage = "done", !.round = @ + 1, !.submitted = a]
      PROVE  ChainInv'
  <2>1. /\ DOMAIN review' = DOMAIN review /\ review'.stage = "done" /\ review'.submitted = a
        /\ review'.round \in Nat
        /\ UNCHANGED <<review.count, review.left, review.made, review.cached, review.observed,
                       review.records>>
    BY <1>1, <1>8 DEF NoReview
  <2>2. \A i \in DOMAIN a : Citable(a[i])'
    BY <1>8, <2>1 DEF Valid, Citable, Supported
  <2> QED
    BY <1>1, <1>4, <2>1, <2>2 DEF Verifying
<1>9. ASSUME review' = [review EXCEPT !.round = @ + 1]
      PROVE  ChainInv'
  BY <1>1, <1>4, <1>9 DEF NoReview
<1>10. CASE Submit(handoff.criteria)
  BY <1>8, <1>9, <1>10 DEF Submit
<1> QED
  BY <1>5, <1>6, <1>7, <1>10 DEF Verify, VerifierStep

-----------------------------------------------------------------------------
(* The gate.                                                               *)

\* A report has all fields, and is about its handoff and result.
LEMMA ReportIsAbout ==
  ASSUME NEW h, NEW result, NEW fields, DOMAIN fields \subseteq DOMAIN NoReport,
         DOMAIN fields \cap {"result", "handoff", "todo", "subject"} = {}
  PROVE  /\ DOMAIN Report(h, result, fields) = DOMAIN NoReport
         /\ \A x \in DOMAIN fields : Report(h, result, fields)[x] = fields[x]
         /\ Report(h, result, fields).result = result.id
         /\ Report(h, result, fields).handoff = h.id
         /\ Report(h, result, fields).todo = h.todo
         /\ Report(h, result, fields).subject = h.to
BY DEF Report, Merged, NoReport

\* The mechanical checks say nothing of who is who, and a report of them alone is no
\* review; nor is the report on a run that failed.
LEMMA ChecksSay ==
  ASSUME NEW h, h.to = "research_agent", NEW result
  PROVE  LET basic == BasicVerify(h, result, {}, {})
             stopped == ExecutionFailure(h, result)
         IN  /\ DOMAIN basic = DOMAIN NoReport /\ basic.category # "identity"
             /\ basic.status = "checks_only"
             /\ DOMAIN stopped = DOMAIN NoReport /\ stopped.category # "identity"
             /\ stopped.status = "not_performed"
             /\ \A category : LET f == FailureReport(h, result, category, {"stop"})
                              IN  /\ DOMAIN f = DOMAIN NoReport /\ f.category = category
                                  /\ f.status = "not_performed"
<1>1. ASSUME NEW fields, DOMAIN fields \subseteq DOMAIN NoReport,
             DOMAIN fields \cap {"result", "handoff", "todo", "subject"} = {}
      PROVE  /\ DOMAIN Report(h, result, fields) = DOMAIN NoReport
             /\ \A x \in DOMAIN fields : Report(h, result, fields)[x] = fields[x]
  BY <1>1, ReportIsAbout
<1>2. /\ DOMAIN BasicVerify(h, result, {}, {}) = DOMAIN NoReport
      /\ BasicVerify(h, result, {}, {}).category # "identity"
      /\ BasicVerify(h, result, {}, {}).status = "checks_only"
  BY <1>1 DEF BasicVerify, NoReport
<1>3. ASSUME NEW category, NEW allowed
      PROVE  LET f == FailureReport(h, result, category, allowed)
             IN  /\ DOMAIN f = DOMAIN NoReport /\ f.category = category
                 /\ f.status = "not_performed"
  BY <1>1 DEF FailureReport, NoReport
<1>4. PICK category, allowed : /\ ExecutionFailure(h, result) = FailureReport(h, result, category, allowed)
                               /\ category # "identity"
  BY DEF ExecutionFailure
<1> QED
  BY <1>2, <1>3, <1>4

\* A verdict of passed holds for the evidence it cites alone.
LEMMA CitedIsEnough ==
  ASSUME NEW criteria, ReviewPassed(criteria)
  PROVE  AssessmentsValid(criteria, review.submitted, CitedEvidence)
<1>1. /\ DOMAIN CitedEvidence = UNION {review.submitted[i].refs : i \in DOMAIN review.submitted}
      /\ \A r \in DOMAIN CitedEvidence : CitedEvidence[r] = review.records[r]
  BY DEF CitedEvidence
<1>2. ASSUME NEW i \in DOMAIN review.submitted
      PROVE  /\ review.submitted[i].refs \subseteq DOMAIN CitedEvidence
             /\ Supported(review.submitted[i], review.records)
                => Supported(review.submitted[i], CitedEvidence)
  BY <1>1 DEF Supported
<1> QED
  BY <1>2 DEF ReviewPassed, AssessmentsValid, StructureValid

\* What a specialist of this chain delivers is what the gate looks for.
LEMMA DeliveredIsOriginal ==
  ASSUME ChainInv, handoff.status = "delivered"
  PROVE  /\ Delivered.id = Len(results) /\ Delivered.handoff = Len(results)
         /\ Delivered.sound /\ Original(Latest)
         /\ Len(results) \in Nat \ {0} /\ Len(results) \in DOMAIN results
<1>1. /\ Len(results) \in Nat \ {0} /\ Len(results) \in DOMAIN results
      /\ DOMAIN results = 1..Len(results)
  <2>1. results # << >> /\ results \in Seq({results[i] : i \in DOMAIN results})
    BY DEF ChainInv, ChainTypeOK, InStep, ResultsNumbered
  <2> QED
    BY <2>1
<1>2. /\ Latest.id = Len(results) /\ ProvenanceValid(Latest)
      /\ FoundIn(Latest.observations, Latest.refs) /\ Latest.refs \subseteq DOMAIN results
      /\ handoff.refs = Latest.refs
  <2>1. Latest = results[Len(results)]
    BY DEF Latest
  <2>2. Latest.id = Len(results) /\ Latest.refs \subseteq 1..(Len(results) - 1)
    BY <1>1, <2>1 DEF ChainInv, ChainTypeOK, ResultsNumbered
  <2>3. ProvenanceValid(Latest) /\ FoundIn(Latest.observations, Latest.refs)
    BY <1>1, <2>1 DEF ChainInv, ResultsAreSound
  <2>4. handoff.refs = Latest.refs
    BY DEF ChainInv, InStep
  <2> QED
    BY <1>1, <2>2, <2>3, <2>4
<1>3. /\ Delivered.id = Latest.id /\ Delivered.handoff = Latest.id
      /\ Delivered.sound = ProvenanceValid(Latest)
  BY DEF Delivered, Latest, Merged
<1>4. Original(Latest)
  BY <1>2 DEF Original, FoundIn, ChainInv, ResultsAreSound
<1> QED
  BY <1>1, <1>2, <1>3, <1>4

\* The gate's report names no identity failure, and one that passes after a review is
\* the verdict of the verifier.
LEMMA GateReports ==
  ASSUME ChainConstants, ChainInv, Gate
  PROVE  /\ report'.category # "identity"
         /\ report'.passed /\ report'.status = "assessed" =>
              /\ report'.assessments = review.submitted
              /\ ReviewPassed(Criteria)
<1>1. PICK h : h = [handoff EXCEPT !.status = "completed"]
  OBVIOUS
<1>2. PICK d : d = Delivered
  OBVIOUS
<1>3. PICK basic : basic = BasicVerify(h, d, {}, {})
  OBVIOUS
<1>4. PICK answer : answer = IF review.stage = "done" THEN Answer ELSE NoAnswer
  OBVIOUS
<1>5. PICK about : about = answer.report
  OBVIOUS
<1>6. /\ handoff.status = "delivered"
      /\ report' = GateVerify(h, d, {}, {}, Original(Latest), answer)
  BY <1>1, <1>2, <1>4 DEF Gate
<1>7. /\ h.status = "completed" /\ h.result = d.id /\ d.handoff = h.id /\ h.todo = h.id
      /\ h.to = "research_agent" /\ h.criteria = Criteria /\ h.todo # 0
      /\ d.sound /\ Original(Latest)
  BY <1>1, <1>2, <1>6, DeliveredIsOriginal DEF ChainInv, ChainTypeOK, HandoffType, InStep
<1>8. /\ DOMAIN basic = DOMAIN NoReport /\ basic.category # "identity" /\ basic.status = "checks_only"
      /\ DOMAIN ExecutionFailure(h, d) = DOMAIN NoReport
      /\ ExecutionFailure(h, d).category # "identity"
      /\ ExecutionFailure(h, d).status = "not_performed"
      /\ \A category : LET f == FailureReport(h, d, category, {"stop"})
                       IN  /\ DOMAIN f = DOMAIN NoReport /\ f.category = category
                           /\ f.status = "not_performed"
  BY <1>3, <1>7, ChecksSay
<1>9. ASSUME NEW r, DOMAIN r = DOMAIN NoReport
      PROVE  LET w == WithBasic(r, basic)
             IN  /\ w.category = r.category /\ w.status = r.status /\ w.passed = r.passed
                 /\ w.assessments = r.assessments
  BY <1>9 DEF WithBasic, NoReport
<1>10. /\ answer.kind = "raised" => answer.category = "model_response"
       /\ answer.kind # "raised" =>
            /\ DOMAIN about = DOMAIN NoReport
            /\ about.result = d.id /\ about.handoff = h.id /\ about.todo = h.todo
            /\ about.subject = h.to /\ about.category # "identity"
            /\ about.assessments = review.submitted /\ about.evidence = CitedEvidence
            /\ about.passed = ReviewPassed(Criteria)
  <2>1. CASE review.stage # "done"
    BY <1>4, <2>1 DEF NoAnswer
  <2>2. CASE review.stage = "done"
    <3> PICK fields : fields =
          [passed |-> ReviewPassed(h.criteria), category |-> ReviewCategory(h.criteria),
           status |-> IF Submitted THEN "assessed" ELSE "not_performed",
           assessments |-> review.submitted, evidence |-> CitedEvidence,
           scope |-> IF Submitted THEN "todo" ELSE "run"]
      OBVIOUS
    <3>1. /\ answer = [kind |-> "report", category |-> "none", report |-> Report(h, d, fields)]
      BY <1>1, <1>2, <1>4, <2>2, Zenon DEF Answer
    <3>2. answer.kind = "report" /\ about = Report(h, d, fields)
      BY <1>5, <3>1
    <3>3. /\ DOMAIN fields = {"passed", "category", "status", "assessments", "evidence", "scope"}
          /\ fields.passed = ReviewPassed(Criteria) /\ fields.category # "identity"
          /\ fields.assessments = review.submitted /\ fields.evidence = CitedEvidence
      BY <1>7 DEF ReviewCategory
    <3>4. DOMAIN fields \subseteq DOMAIN NoReport
      BY <3>3 DEF NoReport
    <3>5. /\ DOMAIN about = DOMAIN NoReport /\ \A x \in DOMAIN fields : about[x] = fields[x]
          /\ about.result = d.id /\ about.handoff = h.id /\ about.todo = h.todo
          /\ about.subject = h.to
      BY <3>2, <3>3, <3>4, ReportIsAbout
    <3> QED
      BY <3>2, <3>3, <3>5
  <2> QED
    BY <2>1, <2>2
<1>11. PICK judged : judged = Classified(h, d, about)
  OBVIOUS
<1>12. answer.kind # "raised" =>
         /\ DOMAIN judged = DOMAIN NoReport /\ judged.category # "identity"
         /\ judged.todo = h.todo /\ judged.passed = about.passed
         /\ judged.assessments = about.assessments /\ judged.evidence = about.evidence
  BY <1>7, <1>10, <1>11 DEF Classified, NoReport
<1>13. judged.passed /\ answer.kind # "raised" =>
         AssessmentsValid(h.criteria, judged.assessments, judged.evidence)
  BY <1>7, <1>10, <1>12, CitedIsEnough
<1>14. \/ report' = basic
       \/ report' = WithBasic(ExecutionFailure(h, d), basic)
       \/ report' = WithBasic(FailureReport(h, d, "model_response", {"stop"}), basic)
       \/ answer.kind # "raised" /\ report' = WithBasic(judged, basic)
  <2>1. /\ ~(h.status # "completed" \/ h.result # d.id \/ d.handoff # h.id)
        /\ ~(h.to = "research_agent" /\ (~d.sound \/ ~Original(Latest)))
        /\ ~(h.todo = 0 \/ h.criteria = {})
    BY <1>7 DEF ChainConstants
  <2>2. answer.kind # "raised" =>
          /\ ~(\/ about.result # d.id \/ about.handoff # h.id \/ about.subject # h.to
               \/ about.todo \notin {0, h.todo})
          /\ ~(judged.passed /\ (\/ judged.todo # h.todo
                                 \/ ~AssessmentsValid(h.criteria, judged.assessments, judged.evidence)))
    BY <1>10, <1>12, <1>13
  <2>3. answer.kind = "raised" => answer.category = "model_response"
    BY <1>10
  <2> QED
    BY <1>3, <1>5, <1>6, <1>11, <2>1, <2>2, <2>3 DEF GateVerify, Unreviewed
<1> QED
  BY <1>8, <1>9, <1>10, <1>12, <1>14

LEMMA GateKeeps ==
  ASSUME ChainConstants, VerifierConstants, ChainInv, Gate
  PROVE  ChainInv'
<1>1. /\ UNCHANGED <<web, run, evidence, results, latest, fetched>>
      /\ handoff' = [handoff EXCEPT !.status = "completed"] /\ review' = NoReview
      /\ handoff.status = "delivered"
  BY DEF Gate, researchVars
<1>2. /\ handoff' \in HandoffType /\ handoff'.status = "completed"
      /\ handoff'.id = handoff.id /\ handoff'.todo = handoff.todo
  BY <1>1 DEF ChainInv, ChainTypeOK, HandoffType
<1>3. ReviewShape' /\ ReviewFits'
  BY <1>1, <1>2 DEF ReviewShape, ReviewFits, NoReview, Verifying, VerifierConstants
<1>4. ChainTypeOK'
  <2>1. ResultsNumbered' /\ run' \in RunType' /\ web' \subseteq Keys /\ EvidenceShape'
    BY <1>1 DEF ChainInv, ChainTypeOK, ResultsNumbered, RunType, EvidenceShape
  <2>2. handoff' \in HandoffType' /\ latest' \in LatestType \cup {Nothing}
    BY <1>1, <1>2 DEF ChainInv, ChainTypeOK, HandoffType
  <2> QED
    BY <1>3, <2>1, <2>2 DEF ChainTypeOK
<1>5. ResultsAreSound' /\ EvidenceIsSound'
  BY <1>1 DEF ChainInv, ResultsAreSound, EvidenceIsSound, SourceIsSound, ProvenanceValid, Traced, FoundIn
<1>6. InStep'
  BY <1>1, <1>2 DEF ChainInv, InStep
<1> QED
  BY <1>3, <1>4, <1>5, <1>6, GateReports DEF ChainInv, GateRecognisesResearch

-----------------------------------------------------------------------------
(* The chain.                                                              *)

LEMMA ResearchKeeps ==
  ASSUME ResearchConstants, ChainInv, Research
  PROVE  ChainInv'
<1>1. UNCHANGED <<review, report>>
  BY DEF Research
<1>2. ASSUME UNCHANGED results PROVE UNCHANGED handoff
  BY <1>2 DEF Research
<1>3. ASSUME NEW draft \in Drafts, Synthesise(draft) PROVE ChainInv'
  <2>1. results' # results
    <3>1. \E x : results' = Append(results, x)
      BY <1>3 DEF Synthesise, Deliver
    <3>2. Len(results') = Len(results) + 1 /\ Len(results) \in Nat
      BY <3>1, OneMoreResult DEF ChainInv, ChainTypeOK
    <3> QED
      BY <3>2
  <2>2. handoff' = [handoff EXCEPT !.status = "delivered", !.result = Latest'.id]
    BY <2>1 DEF Research
  <2> QED
    BY <1>1, <1>3, <2>2, DeliveringKeeps
<1>4. ASSUME \/ Exhausted \/ BeginRound \/ EndRound
             \/ \E stop \in {"budget", "model_response", "none"} : EndRounds(stop)
             \/ Unexposed
             \/ \E key \in Keys : Refused(key) \/ SentFailed(key) \/ SentUnrecognised(key)
      PROVE  ChainInv'
  <2>1. UNCHANGED results
    BY <1>4 DEF Exhausted, BeginRound, EndRound, EndRounds, Summarise, Unexposed, Refused,
                SentFailed, SentUnrecognised, Sent
  <2> QED
    BY <1>1, <1>2, <1>4, <2>1, CountingKeeps
<1>5. ASSUME NEW key \in Keys,
             \/ \E urls \in SUBSET Urls, fresh \in BOOLEAN : Searched(key, urls, fresh)
             \/ \E url \in Urls, fresh \in BOOLEAN : Extracted(key, url, fresh)
      PROVE  ChainInv'
  <2>1. UNCHANGED results
    BY <1>5 DEF Searched, Extracted, Sent
  <2> QED
    BY <1>1, <1>2, <1>5, <2>1, ObservingKeeps
<1> QED
  BY <1>3, <1>4, <1>5 DEF Research, ResearchStep, Ask, Keys

LEMMA ChainInitHolds ==
  ASSUME ResearchConstants, VerifierConstants
  PROVE  ChainInit => ChainInv
<1> SUFFICES ASSUME ChainInit PROVE ChainInv
  OBVIOUS
<1>1. /\ web = {} /\ results = << >> /\ fetched = {} /\ run = Idle(0) /\ latest = Nothing
      /\ evidence = NoEvidence /\ review = NoReview /\ report = NoReport
      /\ handoff = [Handoff(0, "basic", {}) EXCEPT !.status = "none"]
  BY DEF ChainInit, ResearchInit, VerifierInit
<1>2. 0 \in 0..MaxRuns /\ 0 \in 0..MaxRounds /\ 0 \in 0..MaxBatch /\ 0 \in 0..MaxVerifyBatch
      /\ MaxRuns \in Nat
  BY DEF ResearchConstants, VerifierConstants
<1>3. ResultsNumbered /\ DOMAIN results = {} /\ Len(results) = 0
  BY <1>1, <1>2 DEF ResultsNumbered
<1>4. run \in RunType /\ run.stage = "idle" /\ run.id = 0 /\ run.refs = {}
  <2>1. [tool \in DOMAIN Limit |-> 0] \in [DOMAIN Limit -> Nat]
    OBVIOUS
  <2> QED
    BY <1>1, <1>2, <2>1 DEF Idle, NewRun, RunType, Stops
<1>5. handoff \in HandoffType /\ handoff.status = "none" /\ handoff.id = 0 /\ handoff.todo = 0
  BY <1>1, <1>2 DEF Handoff, HandoffType, Level
<1>6. EvidenceShape /\ ReviewShape
  BY <1>1, <1>2 DEF EvidenceShape, ReviewShape, NoEvidence, NoReview
<1>7. ResultsAreSound /\ EvidenceIsSound
  BY <1>1, <1>3 DEF ResultsAreSound, EvidenceIsSound, NoEvidence, FoundIn
<1>8. InStep
  BY <1>3, <1>4, <1>5 DEF InStep
<1>9. ReviewFits /\ GateRecognisesResearch
  BY <1>1, <1>5 DEF ReviewFits, NoReview, Verifying, GateRecognisesResearch, NoReport
<1> QED
  BY <1>1, <1>3, <1>4, <1>5, <1>6, <1>7, <1>8, <1>9 DEF ChainInv, ChainTypeOK

LEMMA ChainStepKeeps ==
  ASSUME ResearchConstants, VerifierConstants, ChainConstants
  PROVE  ChainInv /\ [ChainNext]_chainVars => ChainInv'
<1> SUFFICES ASSUME ChainInv, [ChainNext]_chainVars PROVE ChainInv'
  OBVIOUS
<1>1. CASE Research
  BY <1>1, ResearchKeeps
<1>2. CASE StartReview
  BY <1>2, StartReviewKeeps
<1>3. CASE Verify
  BY <1>3, VerifyKeeps
<1>4. CASE Gate
  BY <1>4, GateKeeps
<1>5. CASE \E refs \in SUBSET DOMAIN results, level \in Level : Delegate(refs, level)
  BY <1>5, DelegateKeeps
<1>6. CASE UNCHANGED chainVars
  <2>1. UNCHANGED <<researchVars, handoff, report, review>>
    BY <1>6 DEF chainVars
  <2>2. ReviewShape' /\ ReviewFits'
    BY <2>1 DEF researchVars, ChainInv, ChainTypeOK, ReviewShape, ReviewFits, Latest, Verifying,
                Citable, Supported
  <2> QED
    BY <2>1, <2>2, ReviewGoesOn
<1> QED
  BY <1>1, <1>2, <1>3, <1>4, <1>5, <1>6 DEF ChainNext, Agents

LEMMA ChainInvariance ==
  ChainSpec => []ChainInv
<1>1. ChainInit => ChainInv
  BY ResearchConstants, VerifierConstants, ChainInitHolds
<1>2. ChainInv /\ [ChainNext]_chainVars => ChainInv'
  BY ResearchConstants, VerifierConstants, ChainConstants, ChainStepKeeps
<1> QED
  BY <1>1, <1>2, PTL DEF ChainSpec

\* Run, evidence, results, handoff and review have their shape, and stay within the
\* limits of the run and the task, whatever the models and the web answer.
THEOREM ChainIsTyped ==
  ChainSpec => []ChainTypeOK
<1>1. ChainInv => ChainTypeOK
  BY DEF ChainInv
<1> QED
  BY <1>1, ChainInvariance, PTL

\* No source of any result is without a fetch, through every order of searches,
\* extractions and reuse over any number of runs (ResearchEvidence.observe and
\* import_history).
THEOREM EverySourceWasFetched ==
  ChainSpec => []SourcesAreTraced
<1>1. ChainInv => SourcesAreTraced
  BY DEF ChainInv, ResultsAreSound, SourcesAreTraced
<1> QED
  BY <1>1, ChainInvariance, PTL

\* The gate never answers an identity failure to a run of the research agent, which the
\* supervisor could not retry (VerificationGate.verify).
THEOREM ResearchIsRecognised ==
  ChainSpec => []GateRecognisesResearch
<1>1. ChainInv => GateRecognisesResearch
  BY DEF ChainInv
<1> QED
  BY <1>1, ChainInvariance, PTL

\* A report that passes after a review rests, for each required criterion, on usable
\* evidence that the verifier had read or observed, and the sources among it are traced
\* (VerifierAgent.verify, submit_verification).
THEOREM PassIsGrounded ==
  ChainSpec => PassedRestsOnEvidence
<1> DEFINE Grounded ==
             report' # report /\ report'.passed /\ report'.status = "assessed" =>
               \A c \in Criteria \cap Required :
                 \E i \in DOMAIN report'.assessments :
                   LET a == report'.assessments[i]
                   IN  /\ a.criterion = c /\ a.refs # {}
                       /\ \A r \in a.refs :
                            /\ r \in review.observed /\ review.records[r]
                            /\ r[1] = "source" =>
                                 \E s \in Latest.sources : s.url = r[2] /\ Traced(Latest, s)
<1>1. ChainInv /\ [ChainNext]_chainVars => [Grounded]_chainVars
  <2> SUFFICES ASSUME ChainInv, [ChainNext]_chainVars, report' # report, report'.passed,
                      report'.status = "assessed", NEW c \in Criteria \cap Required
               PROVE  \E i \in DOMAIN report'.assessments :
                        LET a == report'.assessments[i]
                        IN  /\ a.criterion = c /\ a.refs # {}
                            /\ \A r \in a.refs :
                                 /\ r \in review.observed /\ review.records[r]
                                 /\ r[1] = "source" =>
                                      \E s \in Latest.sources : s.url = r[2] /\ Traced(Latest, s)
    BY Zenon
  <2>1. Gate
    <3>1. CASE \E refs \in SUBSET DOMAIN results, level \in Level : Delegate(refs, level)
      BY <3>1 DEF Delegate, NoReport
    <3> QED
      BY <3>1 DEF ChainNext, Agents, Research, StartReview, Verify, chainVars
  <2>2. report'.assessments = review.submitted /\ ReviewPassed(Criteria)
    BY <2>1, ChainConstants, GateReports
  <2>3. PICK i \in DOMAIN review.submitted :
          /\ review.submitted[i].criterion = c /\ review.submitted[i].status = "passed"
          /\ Supported(review.submitted[i], review.records)
    BY <2>2 DEF ReviewPassed, AssessmentsValid, StructureValid, CriteriaOf
  <2>4. /\ review.submitted[i].refs # {}
        /\ \A r \in review.submitted[i].refs : review.records[r]
    BY <2>3 DEF Supported
  <2>5. /\ review.submitted[i].refs \subseteq review.observed
        /\ review.observed \subseteq DOMAIN review.records
        /\ \A r \in DOMAIN review.records :
             r[1] = "source" => \E s \in Latest.sources : s.url = r[2]
    BY DEF ChainInv, ReviewFits, Citable
  <2>6. \A s \in Latest.sources : Traced(Latest, s)
    <3>1. handoff.status = "delivered"
      BY <2>1 DEF Gate
    <3> QED
      BY <3>1, DeliveredIsOriginal DEF Latest, ChainInv, ResultsAreSound
  <2> QED
    BY <2>2, <2>3, <2>4, <2>5, <2>6
<1> QED
  BY <1>1, ChainInvariance, PTL DEF ChainSpec, PassedRestsOnEvidence

=============================================================================
