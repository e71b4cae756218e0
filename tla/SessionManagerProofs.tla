------------------------- MODULE SessionManagerProofs -------------------------
(***************************************************************************)
(* Safety of SessionManager, for any files, bodies and bounds, and of      *)
(* Conversation, for any messages, models and number of messages kept.     *)
(***************************************************************************)
EXTENDS Conversation, TLAPS, WellFoundedInduction

-----------------------------------------------------------------------------
(* The files that writes leave behind. *)

(* A part of a sequence is a sequence over the same set. *)
LEMMA SubSeqType ==
  ASSUME NEW S, NEW s \in Seq(S), NEW k \in 0..Len(s)
  PROVE  /\ SubSeq(s, 1, k) \in Seq(S)
         /\ Len(SubSeq(s, 1, k)) = k
         /\ \A i \in 1..k : SubSeq(s, 1, k)[i] = s[i]
  OBVIOUS

(* The fields of a file have their types. *)
LEMMA FileType ==
  ASSUME NEW h \in {"absent", "broken", "legacy", "current"}, NEW s \in Seq(Entry),
         NEW t \in {"none", "cut", "whole"}, NEW l \in BOOLEAN
  PROVE  File(h, s, t, l) \in FileState
  BY DEF File, FileState

(* A file that is broken or absent is a file. *)
LEMMA EmptyFiles == Broken \in FileState /\ Absent \in FileState
<1>1. <<>> \in Seq(Entry)
  OBVIOUS
<1> QED BY <1>1 DEF Broken, Absent, File, FileState

(* Without the line the next write runs into, a file is still a file. *)
LEMMA UnterminatedType ==
  ASSUME NEW fs \in FileState
  PROVE  Unterminated(fs) \in FileState
<1>1. Broken \in FileState
  BY EmptyFiles
<1>2. CASE fs.tail = "whole" /\ fs.lines # <<>>
  <2>1. Len(fs.lines) - 1 \in 0..Len(fs.lines) /\ fs.lines \in Seq(Entry)
    BY <1>2 DEF FileState
  <2>2. SubSeq(fs.lines, 1, Len(fs.lines) - 1) \in Seq(Entry)
    BY <2>1, SubSeqType
  <2> QED BY <1>2, <2>2 DEF FileState, Unterminated
<1> QED BY <1>1, <1>2 DEF Unterminated

(* A complete write leaves a file. *)
LEMMA WrittenType ==
  ASSUME NEW fs \in FileState, NEW e \in Entry, NEW big \in BOOLEAN
  PROVE  Written(fs, e, big) \in FileState
<1>1. Broken \in FileState /\ Unterminated(fs) \in FileState
  BY EmptyFiles, UnterminatedType
<1>2. Longer(fs, big) \in BOOLEAN
  BY DEF Longer
<1>3. Append(fs.lines, e) \in Seq(Entry)
  BY DEF FileState
<1> QED BY <1>1, <1>2, <1>3 DEF Written, FileState

(* A failed write leaves a file. *)
LEMMA TornType ==
  ASSUME NEW fs \in FileState, NEW e \in Entry, NEW big \in BOOLEAN
  PROVE  Torn(fs, e, big) \subseteq FileState
<1>1. Broken \in FileState /\ Unterminated(fs) \in FileState
  BY EmptyFiles, UnterminatedType
<1>2. Longer(fs, big) \in BOOLEAN
  BY DEF Longer
<1>3. Append(fs.lines, e) \in Seq(Entry)
  BY DEF FileState
<1> QED BY <1>1, <1>2, <1>3 DEF Torn, FileState

(* A rewrite leaves a file. *)
LEMMA FlushedType ==
  ASSUME NEW s \in Seq(Entry)
  PROVE  Flushed(s) \in FileState /\ FlushedInPart(s) \subseteq FileState
<1>1. Flushed(s) \in FileState
  BY DEF Flushed, File, FileState
<1>2. ASSUME NEW k \in 0..Len(s), NEW t \in {"none", "cut", "whole"}
      PROVE  File("current", SubSeq(s, 1, k), t, FALSE) \in FileState
  <2>1. SubSeq(s, 1, k) \in Seq(Entry)
    BY SubSeqType
  <2> QED BY <2>1, FileType
<1> QED BY <1>1, <1>2, EmptyFiles DEF FlushedInPart

(* The fields of an entry have their types. *)
LEMMA EntryFields ==
  ASSUME NEW s \in Seq(Entry), NEW i \in DOMAIN s
  PROVE  /\ s[i].id \in 0..MaxIds /\ s[i].parent \in 0..MaxIds /\ s[i].body \in Bodies
         /\ i \in 1..Len(s)
<1>1. s[i] \in Entry /\ i \in 1..Len(s)
  OBVIOUS
<1> QED BY <1>1 DEF Entry

(* Migrated entries are entries. *)
LEMMA MigratedType ==
  ASSUME NEW s \in Seq(Entry), nextId \in 1..(MaxIds + 1),
         (\E i \in DOMAIN s : s[i].id = 0) => nextId + Len(s) <= MaxIds + 1
  PROVE  /\ Migrated(s) \in Seq(Entry)
         /\ Len(Migrated(s)) = Len(s) /\ DOMAIN Migrated(s) = 1..Len(s)
<1> DEFINE m(i) == [id |-> NewId(s, i), parent |-> NewParent(s, i), body |-> s[i].body]
<1>1. ASSUME NEW i \in 1..Len(s) PROVE NewId(s, i) \in 0..MaxIds
  BY EntryFields, SessionConstants DEF NewId
<1>2. ASSUME NEW i \in 1..Len(s) PROVE NewParent(s, i) \in 0..MaxIds
  <2>1. s[i].parent \in 0..MaxIds
    BY EntryFields
  <2>2. i > 1 => i - 1 \in 1..Len(s)
    OBVIOUS
  <2> QED BY <2>1, <2>2, <1>1 DEF NewParent
<1>3. ASSUME NEW i \in 1..Len(s) PROVE m(i) \in Entry
  <2>1. s[i].body \in Bodies
    BY EntryFields
  <2> QED BY <1>1, <1>2, <2>1 DEF Entry
<1> HIDE DEF m
<1>4. [i \in 1..Len(s) |-> m(i)] \in Seq(Entry)
  BY <1>3
<1> QED BY <1>4 DEF Migrated, m

-----------------------------------------------------------------------------
(* Every reachable state is well typed: what the methods of Manager and a failed
   write leave in memory and on disk is of the stated form. *)
THEOREM TypeCorrect == Spec => []TypeOK
<1>1. Init => TypeOK
  <2> SUFFICES ASSUME Init PROVE TypeOK
    OBVIOUS
  <2>1. ASSUME NEW n \in 0..MaxLegacy, NEW b \in Bodies PROVE ListOf(n, b) \in FileState
    <3>1. [id |-> 0, parent |-> 0, body |-> b] \in Entry
      BY SessionConstants DEF Entry
    <3>2. [i \in 1..n |-> [id |-> 0, parent |-> 0, body |-> b]] \in Seq(Entry)
      BY <3>1, SessionConstants
    <3> QED BY <3>2 DEF ListOf, File, FileState
  <2>2. disk \in [Files -> FileState]
    BY <2>1, EmptyFiles DEF Init
  <2> QED BY <2>2, SessionConstants DEF Init, TypeOK
<1>2. TypeOK /\ [Next]_sessionVars => TypeOK'
  <2> SUFFICES ASSUME TypeOK, [Next]_sessionVars PROVE TypeOK'
    OBVIOUS
  <2> USE SessionConstants DEF TypeOK
  <2>1. ASSUME NEW f \in Files, CreateNew(f) PROVE TypeOK'
    <3>1. <<>> \in Seq(Entry)
      OBVIOUS
    <3>2. disk' \in [Files -> FileState]
      BY <2>1, <3>1, FlushedType, EmptyFiles DEF CreateNew
    <3> QED BY <2>1, <3>1, <3>2 DEF CreateNew, Fault
  <2>2. ASSUME NEW f \in Files, Open(f) PROVE TypeOK'
    <3>1. disk[f].lines \in Seq(Entry)
      BY DEF FileState
    <3>2. /\ Migrated(disk[f].lines) \in Seq(Entry)
          /\ Len(Migrated(disk[f].lines)) = Len(disk[f].lines)
      BY <2>2, <3>1, MigratedType DEF Open
    <3>3. disk' \in [Files -> FileState]
      BY <2>2, <3>2, FlushedType DEF Open
    <3>4. leaf' \in 0..MaxIds
      <4>1. CASE disk[f].lines = <<>>
        BY <4>1, <2>2 DEF Open
      <4>2. CASE disk[f].lines # <<>>
        <5>1. Migrated(disk[f].lines)[Len(disk[f].lines)] \in Entry
          BY <4>2, <3>1, <3>2
        <5> QED BY <5>1, <4>2, <2>2 DEF Open, Entry
      <4> QED BY <4>1, <4>2
    <3>5. nextId' \in 1..(MaxIds + 1)
      BY <2>2, <3>1 DEF Open
    <3>6. faults' \in 0..MaxFaults
      BY <2>2 DEF Open, Fault
    <3> QED BY <2>2, <3>2, <3>3, <3>4, <3>5, <3>6 DEF Open
  <2>3. ASSUME NEW b \in Bodies, NEW big \in BOOLEAN, AppendEntry(b, big) PROVE TypeOK'
    <3> DEFINE e == [id |-> nextId, parent |-> leaf, body |-> b]
    <3>1. e \in Entry /\ file \in Files
      BY <2>3 DEF AppendEntry, Entry
    <3>2. disk' \in [Files -> FileState]
      BY <2>3, <3>1, WrittenType, TornType DEF AppendEntry
    <3>3. entries' \in Seq(Entry)
      <4>1. Append(entries, e) \in Seq(Entry)
        BY <3>1
      <4>2. entries' = entries \/ entries' = Append(entries, e)
        BY <2>3 DEF AppendEntry
      <4> QED BY <4>1, <4>2
    <3>4. /\ leaf' \in 0..MaxIds /\ nextId' \in 1..(MaxIds + 1)
          /\ faults' \in 0..MaxFaults /\ file' = file
      BY <2>3 DEF AppendEntry, Fault
    <3> QED BY <3>2, <3>3, <3>4
  <2>4. ASSUME NEW id \in Known, SetLeaf(id) PROVE TypeOK'
    <3>1. id \in 0..MaxIds
      BY EntryFields DEF Known
    <3> QED BY <2>4, <3>1 DEF SetLeaf
  <2>5. CASE Restart
    BY <2>5 DEF Restart
  <2>6. CASE UNCHANGED sessionVars
    BY <2>6 DEF sessionVars, memVars
  <2> QED BY <2>1, <2>2, <2>3, <2>4, <2>5, <2>6 DEF Next
<1> QED BY <1>1, <1>2, PTL DEF Spec

-----------------------------------------------------------------------------
(* No cycles.  A list is well formed when moreover its ids and parents have been
   drawn already, and an entry without id has no parent either. *)
WellFormed(s, n) ==
  /\ Ordered(s)
  /\ \A i \in DOMAIN s : s[i].id < n /\ s[i].parent < n /\ (s[i].id = 0 => s[i].parent = 0)

TreeInv ==
  /\ WellFormed(entries, nextId)
  /\ \A i \in DOMAIN entries : entries[i].id # 0
  /\ leaf < nextId
  /\ \A f \in Files : WellFormed(disk[f].lines, nextId)

(* No entries are well formed. *)
LEMMA EmptyWellFormed == ASSUME NEW n PROVE WellFormed(<<>>, n)
  BY DEF WellFormed, Ordered

(* A prefix of well-formed entries is well formed. *)
LEMMA PrefixWellFormed ==
  ASSUME NEW s \in Seq(Entry), NEW n \in Nat, NEW m \in Nat, n <= m,
         WellFormed(s, n), NEW k \in 0..Len(s)
  PROVE  WellFormed(SubSeq(s, 1, k), m)
<1>1. /\ DOMAIN SubSeq(s, 1, k) = 1..k /\ 1..k \subseteq DOMAIN s
      /\ \A i \in 1..k : SubSeq(s, 1, k)[i] = s[i]
  BY SubSeqType
<1>2. \A i \in DOMAIN s : s[i].id \in Nat /\ s[i].parent \in Nat
  BY EntryFields, SessionConstants
<1>3. Ordered(SubSeq(s, 1, k))
  <2> DEFINE p == SubSeq(s, 1, k)
  <2>1. \A i, j \in DOMAIN s : i <= j /\ s[j].id # 0 =>
          s[i].parent # s[j].id /\ (i # j => s[i].id # s[j].id)
    BY DEF WellFormed, Ordered
  <2>2. DOMAIN p \subseteq DOMAIN s /\ \A i \in DOMAIN p : p[i] = s[i]
    BY <1>1
  <2> HIDE DEF p
  <2>3. \A i, j \in DOMAIN p : i <= j /\ p[j].id # 0 =>
          p[i].parent # p[j].id /\ (i # j => p[i].id # p[j].id)
    BY <2>1, <2>2
  <2> QED BY <2>3 DEF Ordered, p
<1>4. \A i \in DOMAIN s :
        s[i].id < m /\ s[i].parent < m /\ (s[i].id = 0 => s[i].parent = 0)
  BY <1>2 DEF WellFormed
<1> QED BY <1>1, <1>3, <1>4 DEF WellFormed

(* Entries stay well formed when more ids are used up. *)
LEMMA LaterWellFormed ==
  ASSUME NEW s \in Seq(Entry), NEW n \in Nat, NEW m \in Nat, n <= m, WellFormed(s, n)
  PROVE  WellFormed(s, m)
<1>1. \A i \in DOMAIN s : s[i].id \in Nat /\ s[i].parent \in Nat
  BY EntryFields, SessionConstants
<1> QED BY <1>1 DEF WellFormed, Ordered

(* A new entry below the leaf keeps entries well formed. *)
LEMMA AppendWellFormed ==
  ASSUME NEW s \in Seq(Entry), NEW n \in Nat \ {0}, WellFormed(s, n), NEW e \in Entry,
         e.id = n, e.parent < n
  PROVE  WellFormed(Append(s, e), n + 1)
<1>1. /\ DOMAIN Append(s, e) = DOMAIN s \cup {Len(s) + 1}
      /\ \A i \in DOMAIN s : Append(s, e)[i] = s[i] /\ i <= Len(s) /\ i \in Nat
      /\ Append(s, e)[Len(s) + 1] = e /\ Len(s) \in Nat
  OBVIOUS
<1>2. \A i \in DOMAIN s : s[i].id \in Nat /\ s[i].parent \in Nat
  BY EntryFields, SessionConstants
<1>3. e.id \in Nat /\ e.parent \in Nat
  BY SessionConstants DEF Entry
<1>4. Ordered(Append(s, e))
  BY <1>1, <1>2, <1>3 DEF Ordered, WellFormed
<1>5. \A i \in DOMAIN Append(s, e) :
        /\ Append(s, e)[i].id < n + 1 /\ Append(s, e)[i].parent < n + 1
        /\ Append(s, e)[i].id = 0 => Append(s, e)[i].parent = 0
  BY <1>1, <1>2, <1>3 DEF WellFormed
<1> QED BY <1>4, <1>5 DEF WellFormed

(* What a write makes of the lines of a file. *)
LEMMA WrittenLines ==
  ASSUME NEW fs \in FileState, NEW e \in Entry, NEW big \in BOOLEAN
  PROVE  \A g \in {Written(fs, e, big)} \cup Torn(fs, e, big) :
           \/ g.lines = <<>>
           \/ g.lines = Append(fs.lines, e)
           \/ \E k \in 0..Len(fs.lines) : g.lines = SubSeq(fs.lines, 1, k)
<1>1. fs.lines \in Seq(Entry)
  BY DEF FileState
<1>2. fs.lines = SubSeq(fs.lines, 1, Len(fs.lines)) /\ Len(fs.lines) \in 0..Len(fs.lines)
  BY <1>1
<1>3. Broken.lines = <<>>
  BY DEF Broken, File
<1>4. \/ Unterminated(fs).lines = <<>>
      \/ \E k \in 0..Len(fs.lines) : Unterminated(fs).lines = SubSeq(fs.lines, 1, k)
  <2>1. fs.lines # <<>> => Len(fs.lines) - 1 \in 0..Len(fs.lines)
    BY <1>1
  <2>2. CASE fs.tail = "whole" /\ fs.lines # <<>>
    BY <2>1, <2>2 DEF Unterminated, FileState
  <2> QED BY <2>2, <1>2, <1>3 DEF Unterminated
<1>5. ASSUME NEW h \in FileState, NEW t, NEW l, NEW s
      PROVE  /\ [h EXCEPT !.tail = t, !.long = l].lines = h.lines
             /\ [h EXCEPT !.lines = s, !.long = l].lines = s
             /\ [h EXCEPT !.tail = t, !.long = l, !.lines = s].lines = s
  BY DEF FileState
<1>6. Unterminated(fs) \in FileState
  BY UnterminatedType
<1>7. \/ Written(fs, e, big).lines = <<>>
      \/ Written(fs, e, big).lines = Append(fs.lines, e)
      \/ \E k \in 0..Len(fs.lines) : Written(fs, e, big).lines = SubSeq(fs.lines, 1, k)
  BY <1>2, <1>3, <1>4, <1>5, <1>6 DEF Written, FileState
<1>8. ASSUME NEW g \in Torn(fs, e, big)
      PROVE  \/ g.lines = <<>>
             \/ g.lines = Append(fs.lines, e)
             \/ \E k \in 0..Len(fs.lines) : g.lines = SubSeq(fs.lines, 1, k)
  <2>1. CASE ~Readable(fs)
    BY <2>1, <1>2 DEF Torn
  <2>2. CASE Readable(fs) /\ fs.tail = "none"
    <3>1. \/ g = [fs EXCEPT !.tail = "cut", !.long = Longer(fs, big)]
          \/ g = [fs EXCEPT !.tail = "whole", !.long = Longer(fs, big), !.lines = Append(@, e)]
      BY <2>2, <1>8, Zenon DEF Torn
    <3>2. g.lines = fs.lines \/ g.lines = Append(fs.lines, e)
      <4> DEFINE a == Append(fs.lines, e)
                 l == Longer(fs, big)
      <4>1. [fs EXCEPT !.tail = "cut", !.long = l].lines = fs.lines
        BY <1>5
      <4>2. [fs EXCEPT !.tail = "whole", !.long = l, !.lines = a].lines = a
        BY <1>5
      <4> QED BY <3>1, <4>1, <4>2
    <3> QED BY <3>2, <1>2
  <2>3. CASE Readable(fs) /\ fs.tail # "none" /\ Readable(Unterminated(fs))
    <3>1. g = [Unterminated(fs) EXCEPT !.tail = "cut", !.long = Longer(fs, big)]
      BY <2>3, <1>8, Zenon DEF Torn
    <3>2. g.lines = Unterminated(fs).lines
      BY <3>1, <1>6, SMT DEF FileState
    <3> QED BY <3>2, <1>4
  <2>4. CASE Readable(fs) /\ fs.tail # "none" /\ ~Readable(Unterminated(fs))
    BY <2>4, <1>3 DEF Torn
  <2> QED BY <2>1, <2>2, <2>3, <2>4
<1> QED BY <1>7, <1>8

(* Migration draws new ids, one per position, and links an entry without parent
   to its predecessor. *)
LEMMA MigratedWellFormed ==
  ASSUME NEW s \in Seq(Entry), nextId \in Nat \ {0}, NEW n \in Nat, WellFormed(s, nextId),
         nextId <= n,
         (\E i \in DOMAIN s : s[i].id = 0) => nextId + Len(s) <= n
  PROVE  /\ WellFormed(Migrated(s), n)
         /\ \A i \in DOMAIN Migrated(s) : Migrated(s)[i].id # 0
<1> DEFINE id(i) == NewId(s, i)
           parent(i) == NewParent(s, i)
<1>1. /\ DOMAIN s = 1..Len(s) /\ Len(s) \in Nat /\ DOMAIN Migrated(s) = 1..Len(s)
      /\ \A i \in 1..Len(s) : Migrated(s)[i].id = id(i) /\ Migrated(s)[i].parent = parent(i)
  BY DEF Migrated
<1>2. \A i \in 1..Len(s) : /\ s[i].id \in Nat /\ s[i].parent \in Nat
                           /\ s[i].id < nextId /\ s[i].parent < nextId
                           /\ s[i].id = 0 => s[i].parent = 0
  BY <1>1, EntryFields, SessionConstants DEF WellFormed
<1>3. \A i \in 1..Len(s) : /\ id(i) \in Nat \ {0} /\ id(i) < n
                           /\ s[i].id = 0 => id(i) >= nextId
                           /\ s[i].id # 0 => id(i) = s[i].id
  BY <1>1, <1>2 DEF NewId
<1>4. \A i, j \in 1..Len(s) : i < j => id(i) # id(j)
  <2> SUFFICES ASSUME NEW i \in 1..Len(s), NEW j \in 1..Len(s), i < j PROVE id(i) # id(j)
    OBVIOUS
  <2>1. CASE s[i].id = 0 /\ s[j].id = 0
    BY <2>1, <1>1 DEF NewId
  <2>2. CASE (s[i].id = 0) # (s[j].id = 0)
    BY <2>2, <1>2, <1>3
  <2>3. CASE s[i].id # 0 /\ s[j].id # 0
    BY <2>3, <1>1, <1>3 DEF WellFormed, Ordered
  <2> QED BY <2>1, <2>2, <2>3
<1>5. \A i, j \in 1..Len(s) : i <= j => parent(i) # id(j)
  <2> SUFFICES ASSUME NEW i \in 1..Len(s), NEW j \in 1..Len(s), i <= j PROVE parent(i) # id(j)
    OBVIOUS
  <2>1. CASE s[i].parent # 0 /\ s[j].id = 0
    <3>1. parent(i) = s[i].parent
      BY <2>1 DEF NewParent
    <3> QED BY <3>1, <2>1, <1>2, <1>3
  <2>2. CASE s[i].parent # 0 /\ s[j].id # 0
    <3>1. parent(i) = s[i].parent
      BY <2>2 DEF NewParent
    <3> QED BY <3>1, <2>2, <1>1, <1>3 DEF WellFormed, Ordered
  <2>3. CASE s[i].parent = 0 /\ i > 1
    <3>1. parent(i) = id(i - 1) /\ i - 1 \in 1..Len(s) /\ i - 1 < j
      BY <2>3 DEF NewParent
    <3> QED BY <3>1, <1>4
  <2>4. CASE s[i].parent = 0 /\ ~(i > 1)
    <3>1. parent(i) = 0
      BY <2>4 DEF NewParent
    <3> QED BY <3>1, <1>3
  <2> QED BY <2>1, <2>2, <2>3, <2>4
<1>6. \A i \in 1..Len(s) : parent(i) < n
  <2> SUFFICES ASSUME NEW i \in 1..Len(s) PROVE parent(i) < n
    OBVIOUS
  <2>1. i > 1 => i - 1 \in 1..Len(s)
    OBVIOUS
  <2> QED BY <2>1, <1>2, <1>3 DEF NewParent
<1> HIDE DEF id, parent
<1>7. Ordered(Migrated(s))
  BY <1>1, <1>3, <1>4, <1>5 DEF Ordered
<1> QED BY <1>1, <1>3, <1>6, <1>7 DEF WellFormed

(* There is no cycle for Branch to run into, and no id names two entries, in
   memory or in a file: whatever faults, migrations and restarts come in between. *)
THEOREM TreeIsAcyclic == Spec => []Acyclic
<1>1. Init => TreeInv
  <2> SUFFICES ASSUME Init PROVE TreeInv
    OBVIOUS
  <2>1. ASSUME NEW n \in 0..MaxLegacy, NEW b \in Bodies PROVE WellFormed(ListOf(n, b).lines, 1)
    BY DEF ListOf, File, WellFormed, Ordered
  <2>2. Absent.lines = <<>>
    BY DEF Absent, File
  <2> QED BY <2>1, <2>2, EmptyWellFormed DEF Init, TreeInv
<1>2. TreeInv /\ TypeOK /\ TypeOK' /\ [Next]_sessionVars => TreeInv'
  <2> SUFFICES ASSUME TreeInv, TypeOK, TypeOK', [Next]_sessionVars PROVE TreeInv'
    OBVIOUS
  <2> USE SessionConstants
  <2>1. ASSUME NEW f \in Files, CreateNew(f) PROVE TreeInv'
    <3>1. disk'[f].lines = <<>> /\ \A g \in Files : g # f => disk'[g] = disk[g]
      <4>1. \A fs \in {Flushed(<<>>), Absent} \cup FlushedInPart(<<>>) : fs.lines = <<>>
        BY DEF Flushed, FlushedInPart, Absent, Broken, File
      <4> QED BY <2>1, <4>1 DEF CreateNew, TypeOK
    <3> QED BY <2>1, <3>1, EmptyWellFormed DEF CreateNew, TreeInv, TypeOK
  <2>2. ASSUME NEW f \in Files, Open(f) PROVE TreeInv'
    <3> DEFINE read == disk[f].lines
               found == Migrated(read)
    <3>1. read \in Seq(Entry) /\ nextId \in Nat \ {0} /\ nextId' \in Nat /\ nextId <= nextId'
          /\ ((\E i \in DOMAIN read : read[i].id = 0) => nextId + Len(read) <= nextId')
      BY <2>2 DEF TypeOK, FileState, Open
    <3>2. WellFormed(read, nextId)
      BY DEF TreeInv
    <3>3. /\ WellFormed(found, nextId')
          /\ \A i \in DOMAIN found : found[i].id # 0
      BY <3>1, <3>2, MigratedWellFormed
    <3>4. found \in Seq(Entry) /\ DOMAIN found = DOMAIN read
      <4>1. nextId \in 1..(MaxIds + 1)
        BY DEF TypeOK
      <4>2. (\E i \in DOMAIN read : read[i].id = 0) => nextId + Len(read) <= MaxIds + 1
        BY <2>2 DEF Open
      <4>3. found \in Seq(Entry) /\ DOMAIN found = 1..Len(read)
        BY <3>1, <4>1, <4>2, MigratedType
      <4> QED BY <3>1, <4>3
    <3>5. WellFormed(disk'[f].lines, nextId')
      <4>1. disk'[f] \in {disk[f], Flushed(found)} \cup FlushedInPart(found)
        BY <2>2 DEF Open, TypeOK
      <4>2. WellFormed(disk[f].lines, nextId')
        BY <3>1, <3>2, LaterWellFormed
      <4>3. ASSUME NEW k \in 0..Len(found) PROVE WellFormed(SubSeq(found, 1, k), nextId')
        BY <3>1, <3>3, <3>4, PrefixWellFormed
      <4>4. \A fs \in FlushedInPart(found) :
              fs.lines = <<>> \/ \E k \in 0..Len(found) : fs.lines = SubSeq(found, 1, k)
        BY DEF FlushedInPart, Broken, File
      <4>5. Flushed(found).lines = found
        BY DEF Flushed, File
      <4> HIDE DEF found
      <4> QED BY <3>3, <4>1, <4>2, <4>3, <4>4, <4>5, EmptyWellFormed
    <3>6. \A g \in Files : g # f => WellFormed(disk'[g].lines, nextId')
      <4>1. \A g \in Files : g # f => disk'[g] = disk[g]
        BY <2>2 DEF Open, TypeOK
      <4>2. \A g \in Files : disk[g].lines \in Seq(Entry) /\ WellFormed(disk[g].lines, nextId)
        BY DEF TypeOK, FileState, TreeInv
      <4> QED BY <3>1, <4>1, <4>2, LaterWellFormed
    <3>7. leaf' < nextId' /\ entries' = found
      <4>1. CASE read = <<>>
        BY <4>1, <2>2, <3>1 DEF Open, TreeInv, TypeOK
      <4>2. CASE read # <<>>
        <5>1. Len(read) \in DOMAIN found
          BY <4>2, <3>1, <3>4
        <5> QED BY <4>2, <5>1, <2>2, <3>3 DEF Open, WellFormed
      <4> QED BY <4>1, <4>2
    <3> HIDE DEF found
    <3> QED BY <3>3, <3>5, <3>6, <3>7 DEF TreeInv
  <2>3. ASSUME NEW b \in Bodies, NEW big \in BOOLEAN, AppendEntry(b, big) PROVE TreeInv'
    <3> DEFINE e == [id |-> nextId, parent |-> leaf, body |-> b]
    <3>1. /\ e \in Entry /\ e.id = nextId /\ e.parent < nextId
          /\ nextId \in Nat \ {0} /\ nextId' = nextId + 1 /\ file \in Files
      BY <2>3 DEF AppendEntry, Entry, TypeOK, TreeInv
    <3>2. disk'[file] \in {Written(disk[file], e, big)} \cup Torn(disk[file], e, big)
      BY <2>3, <3>1 DEF AppendEntry, TypeOK
    <3>3. \A g \in Files : g # file => disk'[g] = disk[g]
      BY <2>3, <3>1 DEF AppendEntry, TypeOK
    <3> HIDE DEF e
    <3>4. \A g \in Files : disk[g] \in FileState /\ disk[g].lines \in Seq(Entry)
                           /\ WellFormed(disk[g].lines, nextId)
      BY DEF TypeOK, FileState, TreeInv
    <3>5. WellFormed(disk'[file].lines, nextId')
      <4>1. WellFormed(Append(disk[file].lines, e), nextId')
        BY <3>1, <3>4, AppendWellFormed
      <4>2. \A k \in 0..Len(disk[file].lines) :
              WellFormed(SubSeq(disk[file].lines, 1, k), nextId')
        BY <3>1, <3>4, PrefixWellFormed
      <4>3. \/ disk'[file].lines = <<>>
            \/ disk'[file].lines = Append(disk[file].lines, e)
            \/ \E k \in 0..Len(disk[file].lines) :
                 disk'[file].lines = SubSeq(disk[file].lines, 1, k)
        BY <3>1, <3>2, <3>4, WrittenLines
      <4> QED BY <4>1, <4>2, <4>3, EmptyWellFormed
    <3>6. \A g \in Files : WellFormed(disk'[g].lines, nextId')
      BY <3>1, <3>3, <3>4, <3>5, LaterWellFormed
    <3>7. entries' = entries \/ entries' = Append(entries, e)
      BY <2>3 DEF AppendEntry, e
    <3>8. leaf' < nextId'
      BY <2>3, <3>1 DEF AppendEntry, TreeInv, TypeOK
    <3>9. WellFormed(entries, nextId') /\ WellFormed(Append(entries, e), nextId')
      BY <3>1, LaterWellFormed, AppendWellFormed DEF TypeOK, TreeInv
    <3>10. \A i \in DOMAIN entries' : entries'[i].id # 0
      BY <3>1, <3>7 DEF TypeOK, TreeInv
    <3> QED BY <3>6, <3>7, <3>8, <3>9, <3>10 DEF TreeInv
  <2>4. ASSUME NEW id \in Known, SetLeaf(id) PROVE TreeInv'
    <3>1. id < nextId
      BY DEF Known, TreeInv, WellFormed
    <3> QED BY <2>4, <3>1 DEF SetLeaf, TreeInv
  <2>5. CASE Restart
    BY <2>5, EmptyWellFormed DEF Restart, TreeInv, TypeOK
  <2>6. CASE UNCHANGED sessionVars
    BY <2>6 DEF sessionVars, memVars, TreeInv
  <2> QED BY <2>1, <2>2, <2>3, <2>4, <2>5, <2>6 DEF Next
<1>3. TreeInv => Acyclic
  BY DEF TreeInv, WellFormed, Acyclic
<1> QED BY <1>1, <1>2, <1>3, TypeCorrect, PTL DEF Spec

-----------------------------------------------------------------------------
(* Without faults the file holds what is in memory, the leaf is an entry of the
   session, and a list read back is linked but for roots that migration links. *)
HalfLinked(s) ==
  \A i \in 2..Len(s) : s[i].parent = 0 \/ \E j \in 1..(i - 1) : s[i].parent = s[j].id

NoFaultInv ==
  faults = 0 =>
    /\ file # NoFile => disk[file].header = "current" /\ disk[file].lines = entries
    /\ \A f \in Files : disk[f].tail = "none" /\ HalfLinked(disk[f].lines)
    /\ Linked(entries)
    /\ entries # <<>> => leaf \in Known

(* Migrated entries are linked. *)
LEMMA MigratedLinked ==
  ASSUME NEW s \in Seq(Entry), HalfLinked(s)
  PROVE  Linked(Migrated(s))
<1>1. /\ Len(Migrated(s)) = Len(s) /\ Len(s) \in Nat /\ DOMAIN s = 1..Len(s)
      /\ \A i \in 1..Len(s) : /\ Migrated(s)[i].id = NewId(s, i)
                              /\ Migrated(s)[i].parent = NewParent(s, i)
  BY DEF Migrated
<1> SUFFICES ASSUME NEW i \in 2..Len(s)
             PROVE  \E j \in 1..(i - 1) : NewParent(s, i) = NewId(s, j)
  <2>1. \A j \in 1..Len(s) : Migrated(s)[j].id = NewId(s, j)
    BY <1>1
  <2>2. \A j \in 2..Len(s) : 1..(j - 1) \subseteq 1..Len(s) /\ j \in 1..Len(s)
    BY <1>1
  <2> QED BY <1>1, <2>1, <2>2 DEF Linked
<1>2. CASE s[i].parent = 0
  <2>1. NewParent(s, i) = NewId(s, i - 1) /\ i - 1 \in 1..(i - 1)
    BY <1>1, <1>2 DEF NewParent
  <2> QED BY <2>1
<1>3. CASE s[i].parent # 0
  <2>1. PICK j \in 1..(i - 1) : s[i].parent = s[j].id
    BY <1>3 DEF HalfLinked
  <2>2. NewParent(s, i) = s[i].parent /\ NewId(s, j) = s[j].id
    BY <1>3, <2>1 DEF NewParent, NewId
  <2> QED BY <2>1, <2>2
<1> QED BY <1>2, <1>3

(* A new entry below the leaf keeps entries linked. *)
LEMMA AppendLinked ==
  ASSUME NEW s \in Seq(Entry), NEW e \in Entry, Linked(s),
         s # <<>> => \E j \in DOMAIN s : e.parent = s[j].id
  PROVE  Linked(Append(s, e))
<1>1. /\ Len(Append(s, e)) = Len(s) + 1 /\ Len(s) \in Nat /\ DOMAIN s = 1..Len(s)
      /\ \A i \in 1..Len(s) : Append(s, e)[i] = s[i]
      /\ Append(s, e)[Len(s) + 1] = e
      /\ s # <<>> => Len(s) > 0
  OBVIOUS
<1> SUFFICES ASSUME NEW i \in 2..(Len(s) + 1)
             PROVE  \E j \in 1..(i - 1) : Append(s, e)[i].parent = Append(s, e)[j].id
  BY <1>1 DEF Linked
<1>2. CASE i = Len(s) + 1
  <2>1. s # <<>>
    BY <1>1, <1>2
  <2>2. PICK j \in 1..Len(s) : e.parent = s[j].id
    BY <1>1, <2>1
  <2> QED BY <1>1, <1>2, <2>2
<1>3. CASE i \in 2..Len(s)
  <2>1. PICK j \in 1..(i - 1) : s[i].parent = s[j].id
    BY <1>3 DEF Linked
  <2>2. j \in 1..Len(s) /\ i \in 1..Len(s)
    BY <1>1, <1>3
  <2> QED BY <1>1, <2>1, <2>2
<1> QED BY <1>1, <1>2, <1>3

(* Without faults memory and file agree and every branch is linked, in every reachable state. *)
LEMMA NoFaultInvariant == Spec => []NoFaultInv
<1>1. Init => NoFaultInv
  <2> SUFFICES ASSUME Init PROVE NoFaultInv
    OBVIOUS
  <2>1. ASSUME NEW n \in 0..MaxLegacy, NEW b \in Bodies
        PROVE  ListOf(n, b).tail = "none" /\ HalfLinked(ListOf(n, b).lines)
    BY DEF ListOf, File, HalfLinked
  <2>2. Absent.tail = "none" /\ HalfLinked(Absent.lines)
    BY DEF Absent, File, HalfLinked
  <2>3. Linked(<<>>)
    BY DEF Linked
  <2> QED BY <2>1, <2>2, <2>3 DEF Init, NoFaultInv
<1>2. NoFaultInv /\ TypeOK /\ [Next]_sessionVars => NoFaultInv'
  <2> SUFFICES ASSUME NoFaultInv, TypeOK, [Next]_sessionVars, faults' = 0 PROVE NoFaultInv'
    BY DEF NoFaultInv
  <2> USE SessionConstants
  <2>0. HalfLinked(<<>>) /\ Linked(<<>>) /\ ~Fault
    BY DEF HalfLinked, Linked, Fault, TypeOK
  <2>1. ASSUME NEW f \in Files, CreateNew(f) PROVE NoFaultInv'
    <3>1. faults = 0 /\ disk' = [disk EXCEPT ![f] = Flushed(<<>>)] /\ file' = f /\ entries' = <<>>
      BY <2>0, <2>1 DEF CreateNew
    <3> QED BY <2>0, <3>1 DEF NoFaultInv, TypeOK, Flushed, File
  <2>2. ASSUME NEW f \in Files, Open(f) PROVE NoFaultInv'
    <3> DEFINE read == disk[f].lines
               found == Migrated(read)
    <3>1. faults = 0 /\ file' = f /\ entries' = found
      BY <2>0, <2>2 DEF Open
    <3>2. read \in Seq(Entry) /\ HalfLinked(read)
      BY <3>1 DEF NoFaultInv, TypeOK, FileState
    <3>3. Linked(found)
      BY <3>2, MigratedLinked
    <3>4. HalfLinked(found)
      BY <3>3 DEF Linked, HalfLinked
    <3>5. /\ disk'[f].header = "current" /\ disk'[f].lines = found /\ disk'[f].tail = "none"
          /\ \A g \in Files : g # f => disk'[g] = disk[g]
      <4>1. CASE found = read /\ disk[f].header = "current" /\ disk' = disk
        BY <4>1, <3>1 DEF NoFaultInv
      <4>2. CASE disk' = [disk EXCEPT ![f] = Flushed(found)]
        <5> HIDE DEF found
        <5> QED BY <4>2 DEF Flushed, File, TypeOK
      <4> QED BY <4>1, <4>2, <2>0, <2>2 DEF Open
    <3>6. found # <<>> => leaf' \in {found[i].id : i \in DOMAIN found}
      <4>1. DOMAIN found = 1..Len(read)
        BY DEF Migrated
      <4>2. found # <<>> => read # <<>> /\ Len(read) \in 1..Len(read)
        BY <3>2, <4>1
      <4> QED BY <4>1, <4>2, <2>2 DEF Open
    <3> HIDE DEF found
    <3> QED BY <3>1, <3>3, <3>4, <3>5, <3>6 DEF NoFaultInv, Known
  <2>3. ASSUME NEW b \in Bodies, NEW big \in BOOLEAN, AppendEntry(b, big) PROVE NoFaultInv'
    <3> DEFINE e == [id |-> nextId, parent |-> leaf, body |-> b]
    <3>1. /\ faults = 0 /\ file' = file /\ file \in Files /\ leaf' = nextId
          /\ entries' = Append(entries, e)
          /\ disk' = [disk EXCEPT ![file] = Written(disk[file], e, big)]
      BY <2>0, <2>3 DEF AppendEntry, TypeOK
    <3>2. disk[file] \in FileState /\ disk[file].header = "current" /\ disk[file].tail = "none"
          /\ disk[file].lines = entries
      BY <3>1 DEF NoFaultInv, TypeOK
    <3>3. e \in Entry /\ e.parent = leaf /\ e.id = nextId
      BY <2>3 DEF AppendEntry, Entry, TypeOK
    <3> HIDE DEF e
    <3>4. disk'[file] = [disk[file] EXCEPT !.lines = Append(entries, e),
                                           !.long = Longer(disk[file], big)]
      BY <3>1, <3>2 DEF Written, Readable, TypeOK
    <3>5. /\ disk'[file].header = "current" /\ disk'[file].tail = "none"
          /\ disk'[file].lines = Append(entries, e)
      BY <3>2, <3>4 DEF FileState
    <3>6. \A g \in Files : g # file => disk'[g] = disk[g]
      BY <3>1 DEF TypeOK
    <3>7. Linked(Append(entries, e))
      BY <3>1, <3>3, AppendLinked DEF NoFaultInv, Known, TypeOK
    <3>8. HalfLinked(Append(entries, e))
      BY <3>7 DEF Linked, HalfLinked
    <3>9. leaf' \in Known'
      <4>1. Len(entries) + 1 \in DOMAIN Append(entries, e) /\ Append(entries, e)[Len(entries) + 1] = e
        BY <3>3 DEF TypeOK
      <4> QED BY <4>1, <3>1, <3>3 DEF Known
    <3> QED BY <3>1, <3>5, <3>6, <3>7, <3>8, <3>9 DEF NoFaultInv
  <2>4. ASSUME NEW id \in Known, SetLeaf(id) PROVE NoFaultInv'
    BY <2>4 DEF SetLeaf, NoFaultInv, Known
  <2>5. CASE Restart
    BY <2>0, <2>5 DEF Restart, NoFaultInv
  <2>6. CASE UNCHANGED sessionVars
    BY <2>6 DEF sessionVars, memVars, NoFaultInv, Known
  <2> QED BY <2>1, <2>2, <2>3, <2>4, <2>5, <2>6 DEF Next
<1> QED BY <1>1, <1>2, TypeCorrect, PTL DEF Spec

(* Without faults every branch of the session in memory leads back to its first
   entry: no method of Manager loses or misplaces a parent. *)
THEOREM BranchesReachTheRoot == Spec => []Lineage
<1>1. NoFaultInv => Lineage
  BY DEF NoFaultInv, Lineage
<1> QED BY <1>1, NoFaultInvariant, PTL

-----------------------------------------------------------------------------
(* Files only grow.  Open rewrites a file of version 3 when migration would change it:
   it never would, as an entry without parent is the first of its file.  The leaf is
   empty only as long as nothing is in the file, but maybe a line without its end. *)
Rooted(s) == \A i \in DOMAIN s : s[i].id # 0 /\ (i > 1 => s[i].parent # 0)

RootInv ==
  /\ \A f \in Files : disk[f].header = "current" => Rooted(disk[f].lines)
  /\ leaf = 0 /\ file # NoFile =>
       disk[file].lines = <<>> \/ (disk[file].tail = "whole" /\ Len(disk[file].lines) = 1)

(* What migration makes of any entries is rooted, and rooted entries it leaves alone. *)
LEMMA MigratedRooted ==
  ASSUME NEW s \in Seq(Entry), nextId \in Nat \ {0}
  PROVE  Rooted(Migrated(s)) /\ (Rooted(s) => Migrated(s) = s)
<1> DEFINE m == Migrated(s)
<1>1. /\ DOMAIN s = 1..Len(s) /\ Len(s) \in Nat /\ DOMAIN m = 1..Len(s)
      /\ m = [i \in 1..Len(s) |-> m[i]]
      /\ \A i \in 1..Len(s) : m[i] = [id |-> NewId(s, i), parent |-> NewParent(s, i), body |-> s[i].body]
  BY DEF Migrated
<1>2. \A i \in 1..Len(s) : s[i].id \in Nat /\ s[i].parent \in Nat
  BY <1>1, EntryFields, SessionConstants
<1>3. \A i \in 1..Len(s) : NewId(s, i) # 0
  BY <1>2 DEF NewId
<1>4. Rooted(m)
  <2> SUFFICES ASSUME NEW i \in 1..Len(s) PROVE m[i].id # 0 /\ (i > 1 => m[i].parent # 0)
    BY <1>1 DEF Rooted
  <2>1. i > 1 => i - 1 \in 1..Len(s)
    OBVIOUS
  <2> QED BY <1>1, <1>3, <2>1 DEF NewParent
<1>5. ASSUME Rooted(s) PROVE m = s
  <2>1. ASSUME NEW i \in 1..Len(s) PROVE m[i] = s[i]
    <3>1. NewId(s, i) = s[i].id /\ NewParent(s, i) = s[i].parent
      BY <1>1, <1>5 DEF Rooted, NewId, NewParent
    <3>2. s[i] \in Entry
      BY <1>1
    <3> QED BY <1>1, <3>1, <3>2 DEF Entry
  <2>2. s = [i \in 1..Len(s) |-> s[i]]
    BY <1>1
  <2> HIDE DEF m
  <2> QED BY <1>1, <2>1, <2>2
<1> QED BY <1>4, <1>5

(* Without faults the file holds what the process does, and reading it again gives the
   same entries, unless one of them is too long to be read: appending, migrating and
   switching sessions keep file and memory equal. *)
THEOREM SessionIsDurable == Spec => []Durable
<1>1. NoFaultInv /\ TypeOK /\ Acyclic => Durable
  <2> SUFFICES ASSUME NoFaultInv, TypeOK, Acyclic, faults = 0, file # NoFile
               PROVE  /\ disk[file].header = "current" /\ disk[file].tail = "none"
                      /\ disk[file].lines = entries
                      /\ ~disk[file].long => Openable(disk[file]) /\ Migrated(disk[file].lines) = entries
    BY DEF Durable
  <2>1. /\ disk[file].header = "current" /\ disk[file].tail = "none"
        /\ disk[file].lines = entries /\ Linked(entries)
    BY DEF NoFaultInv, TypeOK
  <2>2. entries \in Seq(Entry) /\ nextId \in Nat \ {0} /\ DOMAIN entries = 1..Len(entries)
    BY SessionConstants DEF TypeOK
  <2>3. Rooted(entries)
    <3> SUFFICES ASSUME NEW i \in DOMAIN entries PROVE entries[i].id # 0 /\ (i > 1 => entries[i].parent # 0)
      BY DEF Rooted
    <3>1. \A j \in DOMAIN entries : entries[j].id # 0
      BY DEF Acyclic
    <3>2. ASSUME i > 1 PROVE entries[i].parent # 0
      <4>1. i \in 2..Len(entries)
        BY <2>2, <3>2
      <4>2. PICK j \in 1..(i - 1) : entries[i].parent = entries[j].id
        BY <2>1, <4>1 DEF Linked
      <4>3. j \in DOMAIN entries
        BY <2>2, <4>1
      <4> QED BY <3>1, <4>2, <4>3
    <3> QED BY <3>1, <3>2
  <2>4. Migrated(entries) = entries
    BY <2>2, <2>3, MigratedRooted
  <2> QED BY <2>1, <2>4 DEF Openable, Readable
<1> QED BY <1>1, NoFaultInvariant, TypeCorrect, TreeIsAcyclic, PTL

(* A part of what is rooted is rooted. *)
LEMMA PrefixRooted ==
  ASSUME NEW s \in Seq(Entry), Rooted(s), NEW k \in 0..Len(s)
  PROVE  Rooted(SubSeq(s, 1, k))
<1>1. /\ DOMAIN SubSeq(s, 1, k) = 1..k /\ 1..k \subseteq DOMAIN s
      /\ \A i \in 1..k : SubSeq(s, 1, k)[i] = s[i]
  BY SubSeqType
<1> QED BY <1>1 DEF Rooted

(* Without a line that lacks its end, a complete write keeps the lines and may add one. *)
LEMMA WrittenKeeps ==
  ASSUME NEW fs \in FileState, NEW e \in Entry, NEW big \in BOOLEAN, fs.tail # "whole"
  PROVE  /\ Written(fs, e, big).header = fs.header
         /\ Written(fs, e, big).lines \in {fs.lines, Append(fs.lines, e)}
<1>1. Unterminated(fs) = fs
  BY DEF Unterminated
<1>2. CASE ~Readable(fs)
  BY <1>2 DEF Written
<1>3. CASE Readable(fs) /\ fs.tail = "none"
  BY <1>3 DEF Written, FileState
<1>4. CASE Readable(fs) /\ fs.tail # "none"
  BY <1>1, <1>4 DEF Written, FileState
<1> QED BY <1>2, <1>3, <1>4

(* What the leaf and the file are to each other, in every reachable state. *)
LEMMA RootInvariant == Spec => []RootInv
<1>0. Rooted(<<>>)
  BY DEF Rooted
<1>1. Init => RootInv
  <2> SUFFICES ASSUME Init PROVE RootInv
    OBVIOUS
  <2>1. \A n \in 0..MaxLegacy, b \in Bodies : ListOf(n, b).header = "legacy"
    BY DEF ListOf, File
  <2>2. Absent.header = "absent"
    BY DEF Absent, File
  <2> QED BY <2>1, <2>2 DEF Init, RootInv
<1>2. RootInv /\ Acyclic /\ TypeOK /\ TypeOK' /\ [Next]_sessionVars => RootInv'
  <2> SUFFICES ASSUME RootInv, Acyclic, TypeOK, TypeOK', [Next]_sessionVars PROVE RootInv'
    OBVIOUS
  <2> USE SessionConstants
  <2>1. ASSUME NEW f \in Files, CreateNew(f) PROVE RootInv'
    <3>1. disk'[f].lines = <<>> /\ \A g \in Files : g # f => disk'[g] = disk[g]
      <4>1. \A fs \in {Flushed(<<>>), Absent} \cup FlushedInPart(<<>>) : fs.lines = <<>>
        BY DEF Flushed, FlushedInPart, Absent, Broken, File
      <4> QED BY <2>1, <4>1 DEF CreateNew, TypeOK
    <3> QED BY <1>0, <2>1, <3>1 DEF CreateNew, RootInv
  <2>2. ASSUME NEW f \in Files, Open(f) PROVE RootInv'
    <3> DEFINE read == disk[f].lines
               found == Migrated(read)
    <3>1. read \in Seq(Entry) /\ nextId \in Nat \ {0} /\ DOMAIN found = 1..Len(read)
      BY DEF TypeOK, FileState, Migrated
    <3>2. Rooted(found)
      BY <3>1, MigratedRooted
    <3>3. found \in Seq(Entry)
      <4>1. nextId \in 1..(MaxIds + 1)
        BY DEF TypeOK
      <4>2. (\E i \in DOMAIN read : read[i].id = 0) => nextId + Len(read) <= MaxIds + 1
        BY <2>2 DEF Open
      <4> QED BY <3>1, <4>1, <4>2, MigratedType
    <3>4. /\ disk'[f] \in {disk[f], Flushed(found)} \cup FlushedInPart(found)
          /\ \A g \in Files : g # f => disk'[g] = disk[g]
      BY <2>2 DEF Open, TypeOK
    <3>5. \A fs \in {Flushed(found)} \cup FlushedInPart(found) :
            Rooted(fs.lines) /\ (found = <<>> => fs.lines = <<>>)
      <4>1. \A k \in 0..Len(found) : Rooted(SubSeq(found, 1, k))
                                     /\ (found = <<>> => SubSeq(found, 1, k) = <<>>)
        BY <3>2, <3>3, PrefixRooted
      <4>2. \A fs \in FlushedInPart(found) :
              fs.lines = <<>> \/ \E k \in 0..Len(found) : fs.lines = SubSeq(found, 1, k)
        BY DEF FlushedInPart, Broken, File
      <4>3. Flushed(found).lines = found
        BY DEF Flushed, File
      <4> HIDE DEF found
      <4> QED BY <1>0, <3>2, <4>1, <4>2, <4>3
    <3>6. leaf' = 0 => read = <<>>
      <4> SUFFICES ASSUME read # <<>> PROVE leaf' # 0
        OBVIOUS
      <4>1. Len(read) \in DOMAIN found
        BY <3>1
      <4> QED BY <2>2, <3>2, <4>1 DEF Open, Rooted
    <3>7. read = <<>> => found = <<>>
      BY <3>1, <3>3
    <3> HIDE DEF found
    <3> QED BY <2>2, <3>4, <3>5, <3>6, <3>7 DEF Open, RootInv
  <2>3. ASSUME NEW b \in Bodies, NEW big \in BOOLEAN, AppendEntry(b, big) PROVE RootInv'
    <3> DEFINE e == [id |-> nextId, parent |-> leaf, body |-> b]
               fs == disk[file]
    <3>1. /\ e \in Entry /\ e.id # 0 /\ e.parent = leaf /\ file \in Files /\ file' = file
          /\ fs \in FileState /\ fs.lines \in Seq(Entry)
      <4>1. file \in Files /\ file' = file /\ nextId \in 1..MaxIds /\ leaf \in 0..MaxIds
        BY <2>3 DEF AppendEntry, TypeOK
      <4>2. e \in Entry /\ e.id # 0 /\ e.parent = leaf
        BY <4>1 DEF Entry
      <4> QED BY <4>1, <4>2 DEF TypeOK, FileState
    <3>2. \A g \in Files : g # file => disk'[g] = disk[g]
      BY <2>3, <3>1 DEF AppendEntry, TypeOK
    <3>3. \/ disk'[file] = Written(fs, e, big) /\ leaf' # 0
          \/ disk'[file] \in Torn(fs, e, big) /\ leaf' = leaf
      BY <2>3, <3>1 DEF AppendEntry, TypeOK
    <3>4. leaf = 0 => fs.lines = <<>> \/ (fs.tail = "whole" /\ Len(fs.lines) = 1)
      BY <3>1 DEF RootInv
    <3>5. fs.header = "current" => Rooted(fs.lines)
      BY <3>1 DEF RootInv
    <3> HIDE DEF e, fs
    <3> DEFINE more == Append(fs.lines, e)
               un   == Unterminated(fs)
    <3>6. un \in FileState /\ (fs.tail # "whole" => un = fs)
      BY <3>1, UnterminatedType DEF Unterminated
    <3>7. /\ un.header = "current" => Rooted(un.lines)
          /\ leaf = 0 => un.lines = <<>>
      <4>1. CASE fs.tail # "whole"
        BY <3>4, <3>5, <3>6, <4>1
      <4>2. CASE fs.tail = "whole" /\ fs.lines = <<>>
        BY <4>2 DEF Unterminated, Broken, File
      <4>3. CASE fs.tail = "whole" /\ fs.lines # <<>>
        <5>1. /\ un.lines = SubSeq(fs.lines, 1, Len(fs.lines) - 1) /\ un.header = fs.header
              /\ Len(fs.lines) - 1 \in 0..Len(fs.lines)
          BY <3>1, <4>3 DEF Unterminated, FileState
        <5>2. leaf = 0 => un.lines = <<>>
          BY <3>1, <3>4, <4>3, <5>1
        <5> QED BY <3>1, <3>5, <5>1, <5>2, PrefixRooted
      <4> QED BY <4>1, <4>2, <4>3
    <3>8. Rooted(fs.lines) /\ fs.tail = "none" => Rooted(more) /\ (leaf = 0 => Len(more) = 1)
      <4> SUFFICES ASSUME Rooted(fs.lines), fs.tail = "none"
                   PROVE  Rooted(more) /\ (leaf = 0 => Len(more) = 1)
        OBVIOUS
      <4>1. /\ DOMAIN more = DOMAIN fs.lines \cup {Len(fs.lines) + 1}
            /\ \A i \in DOMAIN fs.lines : more[i] = fs.lines[i]
            /\ more[Len(fs.lines) + 1] = e /\ Len(more) = Len(fs.lines) + 1
            /\ Len(fs.lines) \in Nat /\ (fs.lines = <<>> <=> Len(fs.lines) = 0)
        BY <3>1
      <4>2. leaf = 0 => Len(fs.lines) = 0
        BY <3>4, <4>1
      <4> QED BY <3>1, <4>1, <4>2 DEF Rooted
    <3>9. ASSUME NEW h \in FileState, NEW t, NEW l, NEW s
          PROVE  /\ [h EXCEPT !.tail = t, !.long = l].lines = h.lines
                 /\ [h EXCEPT !.tail = t, !.long = l].header = h.header
                 /\ [h EXCEPT !.lines = s, !.long = l].lines = s
                 /\ [h EXCEPT !.lines = s, !.long = l].header = h.header
                 /\ [h EXCEPT !.tail = t, !.long = l, !.lines = s].lines = s
                 /\ [h EXCEPT !.tail = t, !.long = l, !.lines = s].header = h.header
                 /\ [h EXCEPT !.tail = t, !.long = l, !.lines = s].tail = t
      BY DEF FileState
    <3>10. Broken.lines = <<>> /\ Broken.header = "broken"
      BY DEF Broken, File
    <3>11. ASSUME NEW g, g = Written(fs, e, big)
           PROVE  g.header = "current" => Rooted(g.lines)
      <4>1. CASE ~Readable(fs)
        BY <3>5, <3>11, <4>1 DEF Written
      <4>2. CASE Readable(fs) /\ fs.tail = "none"
        BY <3>1, <3>5, <3>8, <3>9, <3>11, <4>2 DEF Written
      <4>3. CASE Readable(fs) /\ fs.tail # "none"
        BY <3>6, <3>7, <3>9, <3>10, <3>11, <4>3 DEF Written
      <4> QED BY <4>1, <4>2, <4>3
    <3>12. ASSUME NEW g \in Torn(fs, e, big)
           PROVE  /\ g.header = "current" => Rooted(g.lines)
                  /\ leaf = 0 => g.lines = <<>> \/ (g.tail = "whole" /\ Len(g.lines) = 1)
      <4>1. CASE ~Readable(fs)
        BY <3>4, <3>5, <3>12, <4>1 DEF Torn
      <4>2. CASE Readable(fs) /\ fs.tail = "none"
        <5> DEFINE l == Longer(fs, big)
        <5>1. \/ g = [fs EXCEPT !.tail = "cut", !.long = l]
              \/ g = [fs EXCEPT !.tail = "whole", !.long = l, !.lines = more]
          BY <3>12, <4>2, Zenon DEF Torn
        <5>2. leaf = 0 => fs.lines = <<>>
          BY <3>4, <4>2
        <5>3. leaf = 0 => Len(more) = 1
          BY <3>1, <5>2
        <5> HIDE DEF l, more
        <5>4. CASE g = [fs EXCEPT !.tail = "cut", !.long = l]
          BY <3>1, <3>5, <3>9, <5>2, <5>4
        <5>5. CASE g = [fs EXCEPT !.tail = "whole", !.long = l, !.lines = more]
          BY <3>1, <3>5, <3>8, <3>9, <4>2, <5>3, <5>5
        <5> QED BY <5>1, <5>4, <5>5
      <4>3. CASE Readable(fs) /\ fs.tail # "none" /\ Readable(un)
        <5> DEFINE l == Longer(fs, big)
        <5>1. g = [un EXCEPT !.tail = "cut", !.long = l]
          BY <3>12, <4>3, Zenon DEF Torn
        <5> HIDE DEF l, un
        <5> QED BY <3>6, <3>7, <3>9, <5>1
      <4>4. CASE Readable(fs) /\ fs.tail # "none" /\ ~Readable(un)
        BY <3>10, <3>12, <4>4 DEF Torn
      <4> QED BY <4>1, <4>2, <4>3, <4>4
    <3> QED BY <3>1, <3>2, <3>3, <3>11, <3>12 DEF RootInv
  <2>4. ASSUME NEW id \in Known, SetLeaf(id) PROVE RootInv'
    <3>1. id # 0
      BY DEF Known, Acyclic
    <3> QED BY <2>4, <3>1 DEF SetLeaf, RootInv
  <2>5. CASE Restart
    BY <2>5 DEF Restart, RootInv
  <2>6. CASE UNCHANGED sessionVars
    BY <2>6 DEF sessionVars, memVars, RootInv
  <2> QED BY <2>1, <2>2, <2>3, <2>4, <2>5, <2>6 DEF Next
<1> QED BY <1>1, <1>2, TypeCorrect, TreeIsAcyclic, PTL DEF Spec

(* A line that can be read stays in its file as it is, or with an id and a parent if the
   file is of an old version: unless a write fails, or runs into a line without its end. *)
THEOREM FilesOnlyGrow == Spec => LinesKept
<1> DEFINE Kept(f) == \A i \in DOMAIN disk[f].lines :
         /\ i \in DOMAIN disk'[f].lines
         /\ disk[f].header = "current" => disk'[f].lines[i] = disk[f].lines[i]
         /\ disk[f].lines[i].body = disk'[f].lines[i].body
           Grows == \A f \in Files : disk[f].tail # "whole" /\ faults' = faults => Kept(f)
<1>1. RootInv /\ TypeOK /\ [Next]_sessionVars => [Grows]_sessionVars
  <2> SUFFICES ASSUME RootInv, TypeOK, Next, faults' = faults, NEW f \in Files,
                      disk[f].tail # "whole"
               PROVE  Kept(f)
    OBVIOUS
  <2>0. ~Fault
    BY DEF Fault, TypeOK
  <2>1. CASE disk'[f] = disk[f]
    BY <2>1
  <2>2. ASSUME NEW g \in Files, CreateNew(g) PROVE Kept(f)
    <3>1. disk[g].lines = <<>>
      BY <2>2 DEF CreateNew, Absent, File
    <3>2. f # g => disk'[f] = disk[f]
      BY <2>2 DEF CreateNew, TypeOK
    <3> QED BY <3>1, <3>2
  <2>3. ASSUME NEW g \in Files, Open(g) PROVE Kept(f)
    <3> DEFINE read == disk[g].lines
               found == Migrated(read)
    <3>1. CASE disk' = disk
      BY <3>1
    <3>2. CASE disk' = [disk EXCEPT ![g] = Flushed(found)]
      <4>1. read \in Seq(Entry) /\ nextId \in Nat \ {0}
        BY DEF TypeOK, FileState
      <4>2. disk[g].header = "current" => found = read
        BY <4>1, MigratedRooted DEF RootInv
      <4>3. DOMAIN found = DOMAIN read /\ \A i \in DOMAIN read : found[i].body = read[i].body
        BY <4>1 DEF Migrated
      <4> HIDE DEF found
      <4>4. disk'[g].lines = found /\ (f # g => disk'[f] = disk[f])
        BY <3>2 DEF TypeOK, Flushed, File
      <4> QED BY <4>2, <4>3, <4>4
    <3> QED BY <2>0, <2>3, <3>1, <3>2 DEF Open
  <2>4. ASSUME NEW b \in Bodies, NEW big \in BOOLEAN, AppendEntry(b, big) PROVE Kept(f)
    <3> DEFINE e == [id |-> nextId, parent |-> leaf, body |-> b]
    <3>1. e \in Entry /\ file \in Files
      BY <2>4 DEF AppendEntry, Entry, TypeOK
    <3>2. disk' = [disk EXCEPT ![file] = Written(disk[file], e, big)]
      BY <2>0, <2>4 DEF AppendEntry
    <3> HIDE DEF e
    <3>3. CASE f = file
      <4>1. disk[f] \in FileState /\ disk[f].lines \in Seq(Entry)
        BY DEF TypeOK, FileState
      <4>2. disk'[f].lines \in {disk[f].lines, Append(disk[f].lines, e)}
        BY <3>1, <3>2, <3>3, <4>1, WrittenKeeps DEF TypeOK
      <4>3. \A i \in DOMAIN disk[f].lines :
              /\ i \in DOMAIN Append(disk[f].lines, e)
              /\ Append(disk[f].lines, e)[i] = disk[f].lines[i]
        BY <3>1, <4>1
      <4> QED BY <4>2, <4>3
    <3>4. CASE f # file
      BY <3>2, <3>4 DEF TypeOK
    <3> QED BY <3>3, <3>4
  <2> QED BY <2>1, <2>2, <2>3, <2>4 DEF Next, SetLeaf, Restart
<1>2. Spec => [][Grows]_sessionVars
  BY <1>1, RootInvariant, TypeCorrect, PTL DEF Spec
<1> QED BY <1>2 DEF LinesKept

-----------------------------------------------------------------------------
(* Induction over a set of numbers, and the functions defined by recursion. *)

(* A set with 0 that has with each number the next has all of them. *)
LEMMA SetInduction ==
  ASSUME NEW S, 0 \in S, \A n \in Nat : n \in S => n + 1 \in S
  PROVE  Nat \subseteq S
<1> DEFINE R == {ss \in Nat \X Nat : ss[1] < ss[2]}
           T == Nat \ S
<1>1. IsWellFoundedOn(R, Nat)
  BY NatLessThanWellFounded DEF OpToRel
<1>2. \A x, y \in Nat : x < y => <<x, y>> \in R
  OBVIOUS
<1> HIDE DEF R
<1>3. CASE T # {}
  <2>1. T \subseteq Nat
    OBVIOUS
  <2> HIDE DEF T
  <2>2. PICK x \in T : \A y \in T : ~ (<<y, x>> \in R)
    BY <1>1, <1>3, <2>1, WFMin
  <2> USE DEF T
  <2>3. x # 0 /\ x - 1 \in Nat /\ x - 1 < x
    BY <2>2
  <2>4. x - 1 \in T
    BY <2>2, <2>3
  <2> QED BY <2>2, <2>3, <2>4, <1>2
<1> QED BY <1>3

(* So has a set that has an index whenever it has its predecessor, an index before. *)
LEMMA IndexInduction ==
  ASSUME NEW n \in Nat, NEW K, 0 \in K, NEW pred \in [1..n -> 0..n],
         \A i \in 1..n : pred[i] < i /\ (pred[i] \in K => i \in K)
  PROVE  0..n \subseteq K
<1> DEFINE S == {m \in Nat : \A i \in 0..n : i <= m => i \in K}
<1>1. 0 \in S
  OBVIOUS
<1>2. ASSUME NEW m \in Nat, m \in S PROVE m + 1 \in S
  <2> SUFFICES ASSUME m + 1 \in 1..n PROVE m + 1 \in K
    BY <1>2
  <2>1. pred[m + 1] \in 0..n /\ pred[m + 1] <= m
    OBVIOUS
  <2> QED BY <1>2, <2>1
<1> HIDE DEF S
<1>3. n \in S
  BY <1>1, <1>2, SetInduction
<1> QED BY <1>3 DEF S

Solves(g, m, v, pred, step) ==
  g[0] = v /\ \A i \in 1..m : g[i] = step[<<i, g[pred[i]]>>]

(* The value at each index is made of the value at its predecessor: there is such a function. *)
LEMMA RecursionHolds ==
  ASSUME NEW n \in Nat, NEW V, NEW v \in V, NEW pred \in [1..n -> 0..n],
         \A i \in 1..n : pred[i] < i, NEW step \in [(1..n) \X V -> V]
  PROVE  \E g \in [0..n -> V] : Solves(g, n, v, pred, step)
<1> DEFINE S == {m \in Nat : m <= n => \E g \in [0..m -> V] : Solves(g, m, v, pred, step)}
<1>1. 0 \in S
  <2> DEFINE g == [i \in 0..0 |-> v]
  <2>1. g \in [0..0 -> V] /\ g[0] = v
    OBVIOUS
  <2> HIDE DEF g
  <2>2. Solves(g, 0, v, pred, step)
    BY <2>1 DEF Solves
  <2> QED BY <2>1, <2>2
<1>2. ASSUME NEW m \in Nat, m \in S PROVE m + 1 \in S
  <2> SUFFICES ASSUME m + 1 <= n PROVE \E g \in [0..(m + 1) -> V] : Solves(g, m + 1, v, pred, step)
    OBVIOUS
  <2>1. PICK g \in [0..m -> V] : Solves(g, m, v, pred, step)
    BY <1>2
  <2> DEFINE last == step[<<m + 1, g[pred[m + 1]]>>]
             h    == [i \in 0..(m + 1) |-> IF i = m + 1 THEN last ELSE g[i]]
  <2>2. pred[m + 1] \in 0..m /\ m + 1 \in 1..n
    OBVIOUS
  <2>3. last \in V
    BY <2>1, <2>2
  <2> HIDE DEF last
  <2>4. h \in [0..(m + 1) -> V]
    BY <2>3
  <2>5. h[m + 1] = last /\ \A i \in 0..m : h[i] = g[i]
    OBVIOUS
  <2> HIDE DEF h
  <2>6. h[0] = v
    BY <2>1, <2>5 DEF Solves
  <2>7. ASSUME NEW i \in 1..(m + 1) PROVE h[i] = step[<<i, h[pred[i]]>>]
    <3>1. CASE i = m + 1
      BY <2>2, <2>5, <3>1 DEF last
    <3>2. CASE i \in 1..m
      <4>1. pred[i] \in 0..m
        BY <3>2
      <4> QED BY <2>1, <2>5, <3>2, <4>1 DEF Solves
    <3> QED BY <3>1, <3>2
  <2> QED BY <2>4, <2>6, <2>7 DEF Solves
<1> HIDE DEF S
<1>3. n \in S
  BY <1>1, <1>2, SetInduction
<1> QED BY <1>3 DEF S

-----------------------------------------------------------------------------
(* Branches *)

(* What Acyclic says of the entries of a session. *)
Tree(s) == Ordered(s) /\ \A i \in DOMAIN s : s[i].id # 0

(* IndexOf finds the entry of an id, and a parent stands before its children. *)
LEMMA IndexOfFacts ==
  ASSUME NEW s \in Seq(Entry), Tree(s)
  PROVE  /\ \A i \in DOMAIN s : IndexOf(s, s[i].id) = i
         /\ \A id : IndexOf(s, id) \in 0..Len(s)
         /\ \A id : IndexOf(s, id) # 0 => s[IndexOf(s, id)].id = id
         /\ \A i \in 1..Len(s) : IndexOf(s, s[i].parent) \in 0..(i - 1)
<1>1. DOMAIN s = 1..Len(s) /\ Len(s) \in Nat
  OBVIOUS
<1>2. ASSUME NEW id, NEW i \in DOMAIN s, s[i].id = id
      PROVE  IndexOf(s, id) \in DOMAIN s /\ s[IndexOf(s, id)].id = id
  BY <1>2 DEF IndexOf
<1>3. ASSUME NEW id, \A i \in DOMAIN s : s[i].id # id PROVE IndexOf(s, id) = 0
  BY <1>3 DEF IndexOf
<1>4. \A i \in DOMAIN s : IndexOf(s, s[i].id) = i
  <2> SUFFICES ASSUME NEW i \in DOMAIN s, IndexOf(s, s[i].id) # i PROVE FALSE
    OBVIOUS
  <2> DEFINE j == IndexOf(s, s[i].id)
  <2>1. j \in DOMAIN s /\ s[j].id = s[i].id
    BY <1>2
  <2> HIDE DEF j
  <2>2. i <= j \/ j <= i
    BY <1>1, <2>1
  <2> QED BY <2>1, <2>2 DEF Tree, Ordered, j
<1>5. \A id : IndexOf(s, id) \in 0..Len(s) /\ (IndexOf(s, id) # 0 => s[IndexOf(s, id)].id = id)
  BY <1>1, <1>2, <1>3
<1>6. ASSUME NEW i \in 1..Len(s) PROVE IndexOf(s, s[i].parent) \in 0..(i - 1)
  <2> DEFINE j == IndexOf(s, s[i].parent)
  <2>1. j \in 0..Len(s) /\ (j # 0 => s[j].id = s[i].parent)
    BY <1>5
  <2> HIDE DEF j
  <2>2. j # 0 => ~(i <= j)
    BY <1>1, <2>1 DEF Tree, Ordered
  <2> QED BY <1>1, <2>1, <2>2 DEF j
<1> QED BY <1>4, <1>5, <1>6

Parents(s) == [i \in 1..Len(s) |-> IndexOf(s, s[i].parent)]

(* The walk from an entry to the root. *)
Paths(s, g) ==
  g[0] = <<>> /\ \A i \in 1..Len(s) : g[i] = Append(g[IndexOf(s, s[i].parent)], s[i])

(* BranchIn is the function its recursion describes. *)
LEMMA BranchPaths ==
  ASSUME NEW s \in Seq(Entry), Tree(s)
  PROVE  \E g \in [0..Len(s) -> Seq(Entry)] :
           Paths(s, g) /\ \A id : BranchIn(s, id) = g[IndexOf(s, id)]
<1> DEFINE n == Len(s)
           step == [x \in (1..n) \X Seq(Entry) |-> Append(x[2], s[x[1]])]
           F(g) == [i \in 0..n |-> IF i = 0 THEN <<>> ELSE Append(g[IndexOf(s, s[i].parent)], s[i])]
<1>1. n \in Nat /\ <<>> \in Seq(Entry) /\ \A i \in 1..n : s[i] \in Entry
  OBVIOUS
<1>2. Parents(s) \in [1..n -> 0..n] /\ \A i \in 1..n : Parents(s)[i] < i
  <2>1. \A i \in 1..n : IndexOf(s, s[i].parent) \in 0..(i - 1)
    BY IndexOfFacts
  <2> QED BY <1>1, <2>1 DEF Parents
<1>3. step \in [(1..n) \X Seq(Entry) -> Seq(Entry)]
  BY <1>1
<1>4. \A i \in 1..n, b \in Seq(Entry) : step[<<i, b>>] = Append(b, s[i])
  OBVIOUS
<1> HIDE DEF step
<1>5. PICK g \in [0..n -> Seq(Entry)] : Solves(g, n, <<>>, Parents(s), step)
  BY <1>1, <1>2, <1>3, RecursionHolds
<1>6. Paths(s, g)
  BY <1>2, <1>4, <1>5 DEF Solves, Parents, Paths
<1>7. g = F(g)
  <2>1. \A i \in 0..n : g[i] = F(g)[i]
    BY <1>1, <1>6 DEF Paths
  <2> QED BY <1>5, <2>1
<1>8. ASSUME NEW h, h = F(h) PROVE h = g
  <2> DEFINE K == {i \in 0..n : h[i] = g[i]}
  <2>1. h[0] = <<>> /\ \A i \in 1..n : h[i] = Append(h[IndexOf(s, s[i].parent)], s[i])
    <3>1. \A i \in 0..n : F(h)[i] = IF i = 0 THEN <<>> ELSE Append(h[IndexOf(s, s[i].parent)], s[i])
      OBVIOUS
    <3> HIDE DEF F
    <3>2. \A i \in 0..n : h[i] = F(h)[i]
      BY <1>8, Zenon
    <3>3. \A i \in 0..n : h[i] = IF i = 0 THEN <<>> ELSE Append(h[IndexOf(s, s[i].parent)], s[i])
      BY <3>1, <3>2
    <3>4. 0 \in 0..n /\ \A i \in 1..n : i \in 0..n /\ i # 0
      BY <1>1
    <3>5. h[0] = <<>>
      BY <3>3, <3>4
    <3>6. ASSUME NEW i \in 1..n PROVE h[i] = Append(h[IndexOf(s, s[i].parent)], s[i])
      BY <3>3, <3>4
    <3> QED BY <3>5, <3>6
  <2>2. 0 \in K
    BY <1>1, <1>6, <2>1 DEF Paths
  <2>3. \A i \in 1..n : Parents(s)[i] \in K => i \in K
    <3> SUFFICES ASSUME NEW i \in 1..n, Parents(s)[i] \in K PROVE h[i] = g[i]
      BY <1>1
    <3>1. Parents(s)[i] = IndexOf(s, s[i].parent)
      BY DEF Parents
    <3>2. h[IndexOf(s, s[i].parent)] = g[IndexOf(s, s[i].parent)]
      BY <3>1
    <3> HIDE DEF F, K
    <3> QED BY <1>6, <2>1, <3>2 DEF Paths
  <2>4. 0..n \subseteq K
    <3> HIDE DEF K
    <3> QED BY <1>1, <1>2, <2>2, <2>3, IndexInduction
  <2>5. DOMAIN h = 0..n
    BY <1>8
  <2> HIDE DEF F
  <2> QED BY <1>5, <1>7, <1>8, <2>4, <2>5 DEF F
<1>9. (CHOOSE h : h = F(h)) = g
  <2> HIDE DEF F
  <2> QED BY <1>7, <1>8
<1>10. \A id : BranchIn(s, id) = (CHOOSE h : h = F(h))[IndexOf(s, id)]
  BY DEF BranchIn
<1> QED BY <1>6, <1>9, <1>10

(* An entry's branch is its parent's, and the entry; a walk that finds nothing is empty. *)
LEMMA BranchStep ==
  ASSUME NEW s \in Seq(Entry), Tree(s)
  PROVE  /\ \A id : BranchIn(s, id) \in Seq(Entry)
         /\ \A id : IndexOf(s, id) = 0 => BranchIn(s, id) = <<>>
         /\ \A i \in 1..Len(s) : BranchIn(s, s[i].id) = Append(BranchIn(s, s[i].parent), s[i])
<1>1. PICK g \in [0..Len(s) -> Seq(Entry)] :
        Paths(s, g) /\ \A id : BranchIn(s, id) = g[IndexOf(s, id)]
  BY BranchPaths
<1>2. \A id : IndexOf(s, id) \in 0..Len(s)
  BY IndexOfFacts
<1>3. \A i \in 1..Len(s) : IndexOf(s, s[i].id) = i
  BY IndexOfFacts
<1>4. ASSUME NEW i \in 1..Len(s)
      PROVE  BranchIn(s, s[i].id) = Append(BranchIn(s, s[i].parent), s[i])
  <2>1. BranchIn(s, s[i].id) = g[i] /\ BranchIn(s, s[i].parent) = g[IndexOf(s, s[i].parent)]
    BY <1>1, <1>3
  <2> QED BY <1>1, <2>1 DEF Paths
<1>5. ASSUME NEW id, IndexOf(s, id) = 0 PROVE BranchIn(s, id) = <<>>
  BY <1>1, <1>5 DEF Paths
<1>6. ASSUME NEW id PROVE BranchIn(s, id) \in Seq(Entry)
  <2>1. BranchIn(s, id) = g[IndexOf(s, id)]
    BY <1>1
  <2> QED BY <1>1, <1>2, <2>1
<1> QED BY <1>4, <1>5, <1>6

(* What holds of no entries, and of an entry's branch if it holds of its parent's, holds of
   every branch. *)
LEMMA BranchInduction ==
  ASSUME NEW s \in Seq(Entry), Tree(s), NEW G, <<>> \in G,
         \A i \in 1..Len(s) : BranchIn(s, s[i].parent) \in G => BranchIn(s, s[i].id) \in G
  PROVE  \A id : BranchIn(s, id) \in G
<1> DEFINE n == Len(s)
           K == {j \in 0..n : \A id : IndexOf(s, id) = j => BranchIn(s, id) \in G}
<1>1. n \in Nat
  OBVIOUS
<1>2. Parents(s) \in [1..n -> 0..n] /\ \A i \in 1..n : Parents(s)[i] < i
  <2>1. \A i \in 1..n : IndexOf(s, s[i].parent) \in 0..(i - 1)
    BY IndexOfFacts
  <2> QED BY <1>1, <2>1 DEF Parents
<1>3. 0 \in K
  BY BranchStep
<1>4. ASSUME NEW i \in 1..n, Parents(s)[i] \in K PROVE i \in K
  <2>1. BranchIn(s, s[i].parent) \in G
    BY <1>4 DEF Parents
  <2>2. BranchIn(s, s[i].id) \in G
    BY <2>1
  <2>3. \A id : IndexOf(s, id) = i => id = s[i].id
    <3>1. \A id : IndexOf(s, id) # 0 => s[IndexOf(s, id)].id = id
      BY IndexOfFacts
    <3> QED BY <3>1
  <2> QED BY <2>2, <2>3
<1> HIDE DEF K
<1>5. 0..n \subseteq K
  BY <1>1, <1>2, <1>3, <1>4, IndexInduction
<1>6. \A id : IndexOf(s, id) \in 0..n
  BY IndexOfFacts
<1> QED BY <1>5, <1>6 DEF K

(* A new entry changes no branch there was. *)
LEMMA AppendKeepsBranches ==
  ASSUME NEW s \in Seq(Entry), NEW e \in Entry, Tree(s), Tree(Append(s, e))
  PROVE  /\ \A i \in DOMAIN s : BranchIn(Append(s, e), s[i].id) = BranchIn(s, s[i].id)
         /\ (e.parent = 0 \/ \E i \in DOMAIN s : s[i].id = e.parent)
              => BranchIn(Append(s, e), e.id) = Append(BranchIn(s, e.parent), e)
<1> DEFINE t == Append(s, e)
           n == Len(s)
<1>1. /\ t \in Seq(Entry) /\ Len(t) = n + 1 /\ n \in Nat /\ DOMAIN s = 1..n /\ DOMAIN t = 1..(n + 1)
      /\ \A i \in 1..n : t[i] = s[i]
      /\ t[n + 1] = e
  OBVIOUS
<1> HIDE DEF t
<1>2. Tree(t)
  BY DEF t
<1>3. /\ \A i \in 1..(n + 1) : IndexOf(t, t[i].id) = i
      /\ \A i \in 1..(n + 1) : IndexOf(t, t[i].parent) \in 0..(i - 1)
      /\ \A id : IndexOf(t, id) # 0 => t[IndexOf(t, id)].id = id
  BY <1>1, <1>2, IndexOfFacts
<1>4. /\ \A i \in 1..n : IndexOf(s, s[i].id) = i
      /\ \A id : IndexOf(s, id) \in 0..n
      /\ \A i \in 1..n : IndexOf(s, s[i].parent) \in 0..(i - 1)
      /\ \A id : IndexOf(s, id) # 0 => s[IndexOf(s, id)].id = id
  BY <1>1, IndexOfFacts
<1>5. \A i \in 1..(n + 1) : BranchIn(t, t[i].id) = Append(BranchIn(t, t[i].parent), t[i])
  <2>1. \A i \in 1..Len(t) : BranchIn(t, t[i].id) = Append(BranchIn(t, t[i].parent), t[i])
    BY <1>1, <1>2, BranchStep
  <2> QED BY <1>1, <2>1
<1>6. ASSUME NEW i \in 1..n, IndexOf(s, s[i].parent) = 0 PROVE IndexOf(t, s[i].parent) = 0
  <2>1. IndexOf(t, s[i].parent) \in 0..(i - 1)
    BY <1>1, <1>3
  <2>2. \A j \in 1..(i - 1) : t[j].id # s[i].parent
    BY <1>1, <1>4, <1>6
  <2>3. IndexOf(t, s[i].parent) # 0 => t[IndexOf(t, s[i].parent)].id = s[i].parent
    BY <1>3
  <2> QED BY <2>1, <2>2, <2>3
<1> DEFINE K == {j \in 0..n : j = 0 \/ BranchIn(t, s[j].id) = BranchIn(s, s[j].id)}
<1>7. 0..n \subseteq K
  <2>1. Parents(s) \in [1..n -> 0..n] /\ \A i \in 1..n : Parents(s)[i] < i
    BY <1>1, <1>4 DEF Parents
  <2>2. 0 \in K
    BY <1>1
  <2>3. ASSUME NEW i \in 1..n, Parents(s)[i] \in K PROVE i \in K
    <3> DEFINE p == s[i].parent
    <3>1. IndexOf(s, p) \in K
      BY <2>3 DEF Parents
    <3>2. BranchIn(t, p) = BranchIn(s, p)
      <4>1. CASE IndexOf(s, p) = 0
        <5>1. BranchIn(s, p) = <<>>
          BY <4>1, BranchStep
        <5>2. BranchIn(t, p) = <<>>
          BY <1>1, <1>2, <1>6, <4>1, BranchStep
        <5> QED BY <5>1, <5>2
      <4>2. CASE IndexOf(s, p) # 0
        <5>1. s[IndexOf(s, p)].id = p
          BY <1>4, <4>2
        <5> QED BY <3>1, <4>2, <5>1
      <4> QED BY <4>1, <4>2
    <3>3. BranchIn(s, s[i].id) = Append(BranchIn(s, p), s[i])
      BY BranchStep
    <3>4. BranchIn(t, s[i].id) = Append(BranchIn(t, p), s[i])
      BY <1>1, <1>5
    <3>5. BranchIn(t, s[i].id) = BranchIn(s, s[i].id)
      BY <3>2, <3>3, <3>4
    <3> QED BY <3>5
  <2> HIDE DEF K
  <2> QED BY <1>1, <2>1, <2>2, <2>3, IndexInduction
<1>8. \A i \in 1..n : BranchIn(t, s[i].id) = BranchIn(s, s[i].id)
  BY <1>1, <1>7
<1>9. ASSUME e.parent = 0 \/ \E i \in DOMAIN s : s[i].id = e.parent
      PROVE  BranchIn(t, e.id) = Append(BranchIn(s, e.parent), e)
  <2>1. BranchIn(t, e.id) = Append(BranchIn(t, e.parent), e)
    BY <1>1, <1>5
  <2>2. BranchIn(t, e.parent) = BranchIn(s, e.parent)
    <3>1. CASE e.parent = 0
      <4>1. IndexOf(s, 0) = 0 /\ IndexOf(t, 0) = 0
        <5>1. \A i \in DOMAIN s : s[i].id # 0
          BY DEF Tree
        <5>2. \A i \in DOMAIN t : t[i].id # 0
          BY <1>2 DEF Tree
        <5> QED BY <5>1, <5>2 DEF IndexOf
      <4>2. BranchIn(s, 0) = <<>>
        BY <4>1, BranchStep
      <4>3. BranchIn(t, 0) = <<>>
        BY <1>1, <1>2, <4>1, BranchStep
      <4> QED BY <3>1, <4>2, <4>3
    <3>2. CASE \E i \in DOMAIN s : s[i].id = e.parent
      BY <1>1, <1>8, <3>2
    <3> QED BY <1>9, <3>1, <3>2
  <2> QED BY <1>1, <2>1, <2>2
<1> QED BY <1>1, <1>8, <1>9 DEF t

-----------------------------------------------------------------------------
(* The shape of the sessions.  As writes succeed, every file is one that flushAll could
   have written: its first entry is the root, and the others hang below earlier ones. *)

Typed(body) == body.msg # 0 => body.type = "message"

Neat(s, n) ==
  /\ s # <<>> /\ WellFormed(s, n) /\ Rooted(s) /\ Linked(s)
  /\ s[1].parent = 0
  /\ \A i \in DOMAIN s : Typed(s[i].body)

SessionShape ==
  /\ TypeOK /\ faults = 0
  /\ file \in Files /\ leaf \in Known /\ disk[file] = Flushed(entries)
  /\ \A f \in Files : disk[f] = Absent \/ (disk[f] = Flushed(disk[f].lines)
                                             /\ Neat(disk[f].lines, nextId))

ConvShape ==
  /\ SessionShape
  /\ msgs \in 0..MaxMsgs /\ model \in Models
  /\ compacting \in Seq([file : Files, body : Bodies])
  /\ \A c \in Range(compacting) :
       c.body.type = "compaction" /\ c.body.msg = 0 /\ c.body.model = 0

(* What an action does to the session: an entry is added below one of it, or another
   session is made, or opened. *)
Grows(p, body) ==
  LET e == [id |-> nextId, parent |-> p, body |-> body] IN
  /\ p \in Known /\ nextId <= MaxIds
  /\ nextId' = nextId + 1 /\ leaf' = nextId
  /\ entries' = Append(entries, e)
  /\ disk' = [disk EXCEPT ![file] = Flushed(Append(entries, e))]
  /\ UNCHANGED <<file, faults>>

Opens(f) ==
  /\ disk[f] # Absent
  /\ file' = f /\ entries' = disk[f].lines /\ leaf' = disk[f].lines[Len(disk[f].lines)].id
  /\ UNCHANGED <<disk, nextId, faults>>

CopyOf(bodies) ==
  [i \in DOMAIN bodies |->
     [id |-> nextId + i - 1, parent |-> IF i = 1 THEN 0 ELSE nextId + i - 2,
      body |-> bodies[i]]]

Copyable(bodies) ==
  bodies \in Seq(Bodies) /\ bodies # <<>> /\ \A i \in DOMAIN bodies : Typed(bodies[i])

(* Flushed files differ by their lines, and none is absent. *)
LEMMA FlushedFacts ==
  ASSUME NEW s
  PROVE  /\ Flushed(s).lines = s /\ Flushed(s).header = "current"
         /\ Flushed(s).tail = "none" /\ Flushed(s).long = FALSE
         /\ Flushed(s) # Absent
<1>1. /\ Flushed(s).lines = s /\ Flushed(s).header = "current"
      /\ Flushed(s).tail = "none" /\ Flushed(s).long = FALSE
  BY DEF Flushed, File
<1>2. Absent.header = "absent"
  BY DEF Absent, File
<1> QED BY <1>1, <1>2

(* A line is added to a flushed file as if it were flushed again. *)
LEMMA WrittenFlushed ==
  ASSUME NEW s \in Seq(Entry), NEW e \in Entry
  PROVE  Written(Flushed(s), e, FALSE) = Flushed(Append(s, e))
<1> DEFINE fs == Flushed(s)
           a == Append(s, e)
           g == Written(fs, e, FALSE)
<1>1. fs \in FileState /\ g \in FileState
  BY FlushedType, WrittenType
<1>2. fs.header = "current" /\ fs.lines = s /\ fs.tail = "none" /\ fs.long = FALSE
  BY FlushedFacts
<1> HIDE DEF fs
<1>3. g = [fs EXCEPT !.lines = Append(fs.lines, e), !.long = Longer(fs, FALSE)]
  BY <1>2, Zenon DEF Written, Readable
<1>4. Append(fs.lines, e) = a /\ Longer(fs, FALSE) = FALSE
  BY <1>2 DEF Longer
<1> HIDE DEF a, g
<1>5. g.header = "current" /\ g.lines = a /\ g.tail = "none" /\ g.long = FALSE
  BY <1>1, <1>2, <1>3, <1>4 DEF FileState
<1>6. g = Flushed(a)
  BY <1>1, <1>5 DEF Flushed, File, FileState
<1> QED BY <1>6 DEF fs, a, g

(* The entries of a session in its shape. *)
LEMMA NeatSession ==
  ASSUME SessionShape
  PROVE  /\ entries \in Seq(Entry) /\ Neat(entries, nextId) /\ Tree(entries)
         /\ nextId \in Nat \ {0} /\ nextId \in 1..(MaxIds + 1) /\ leaf # 0
         /\ \A f \in Files : disk[f].lines \in Seq(Entry) /\ Tree(disk[f].lines)
<1> USE SessionConstants
<1>1. entries \in Seq(Entry) /\ nextId \in Nat \ {0} /\ nextId \in 1..(MaxIds + 1)
  BY DEF SessionShape, TypeOK
<1>2. Neat(entries, nextId)
  <2>1. disk[file] # Absent /\ disk[file].lines = entries
    BY FlushedFacts DEF SessionShape
  <2> QED BY <2>1 DEF SessionShape
<1>3. ASSUME NEW s, Neat(s, nextId) PROVE Tree(s)
  BY <1>3 DEF Neat, WellFormed, Rooted, Tree
<1>4. ASSUME NEW f \in Files PROVE disk[f].lines \in Seq(Entry) /\ Tree(disk[f].lines)
  <2>1. disk[f].lines \in Seq(Entry)
    BY DEF SessionShape, TypeOK, FileState
  <2>2. CASE disk[f] = Absent
    <3>1. disk[f].lines = <<>>
      BY <2>2 DEF Absent, File
    <3> QED BY <2>1, <3>1 DEF Tree, Ordered
  <2>3. CASE Neat(disk[f].lines, nextId)
    BY <1>3, <2>1, <2>3
  <2> QED BY <2>1, <2>2, <2>3 DEF SessionShape
<1>5. leaf # 0
  BY <1>2, <1>3 DEF SessionShape, Known, Tree
<1> QED BY <1>1, <1>2, <1>3, <1>4, <1>5

(* An append method adds the entry to memory and file. *)
LEMMA Appending ==
  ASSUME SessionShape, NEW body \in Bodies, Add(body)
  PROVE  Grows(leaf, body)
<1> DEFINE e == [id |-> nextId, parent |-> leaf, body |-> body]
<1>1. faults' = faults /\ ~Fault
  BY DEF Add, Fault, SessionShape, TypeOK
<1>2. e \in Entry
  BY DEF Add, AppendEntry, Entry, SessionShape, TypeOK
<1>3. Written(disk[file], e, FALSE) = Flushed(Append(entries, e))
  BY <1>2, NeatSession, WrittenFlushed DEF SessionShape
<1> HIDE DEF e
<1>4. /\ disk' = [disk EXCEPT ![file] = Written(disk[file], e, FALSE)]
      /\ entries' = Append(entries, e) /\ leaf' = nextId /\ faults' = faults
      /\ nextId <= MaxIds /\ nextId' = nextId + 1 /\ file' = file
  BY <1>1 DEF Add, AppendEntry, e
<1> QED BY <1>3, <1>4 DEF Grows, e, SessionShape

(* Open finds nothing to migrate. *)
LEMMA Opening ==
  ASSUME SessionShape, NEW f \in Files, Open(f)
  PROVE  Opens(f)
<1> DEFINE read == disk[f].lines
<1>1. disk[f] # Absent
  BY DEF Open, Openable, Readable, Absent, File
<1>2. /\ Neat(read, nextId) /\ disk[f].header = "current" /\ read # <<>>
      /\ read \in Seq(Entry) /\ nextId \in Nat \ {0}
  <2>1. disk[f] = Flushed(read) /\ Neat(read, nextId)
    BY <1>1 DEF SessionShape
  <2>2. disk[f].header = "current"
    BY <2>1, FlushedFacts
  <2> QED BY <2>1, <2>2, NeatSession DEF Neat
<1>3. Migrated(read) = read /\ \A i \in DOMAIN read : read[i].id # 0
  BY <1>2, MigratedRooted DEF Neat, Rooted
<1> QED BY <1>1, <1>2, <1>3 DEF Open, Opens

(* A session keeps its shape when an entry is added. *)
LEMMA GrowsShape ==
  ASSUME SessionShape, NEW p, NEW body \in Bodies, Typed(body), Grows(p, body)
  PROVE  SessionShape'
<1> USE SessionConstants
<1> DEFINE e == [id |-> nextId, parent |-> p, body |-> body]
           t == Append(entries, e)
<1>1. /\ entries \in Seq(Entry) /\ Neat(entries, nextId) /\ Tree(entries)
      /\ nextId \in 1..MaxIds /\ DOMAIN entries = 1..Len(entries) /\ Len(entries) \in Nat \ {0}
  BY NeatSession DEF Grows, Neat
<1>2. p \in 0..MaxIds /\ p # 0 /\ p < nextId /\ \E j \in DOMAIN entries : p = entries[j].id
  <2>1. PICK j \in DOMAIN entries : p = entries[j].id
    BY DEF Grows, Known
  <2> QED BY <1>1, <2>1, EntryFields DEF Neat, WellFormed, Rooted
<1>3. e \in Entry /\ e.id = nextId /\ e.parent = p /\ e.body = body
  BY <1>1, <1>2 DEF Entry
<1>4. /\ entries' = t /\ disk' = [disk EXCEPT ![file] = Flushed(t)] /\ file' = file
      /\ nextId' = nextId + 1 /\ leaf' = nextId /\ faults' = faults
  BY DEF Grows
<1> HIDE DEF e
<1>5. /\ t \in Seq(Entry) /\ DOMAIN t = 1..(Len(entries) + 1)
      /\ \A i \in 1..Len(entries) : t[i] = entries[i]
      /\ t[Len(entries) + 1] = e /\ t # <<>>
  BY <1>1, <1>3
<1>6. WellFormed(t, nextId + 1)
  BY <1>1, <1>2, <1>3, AppendWellFormed DEF Neat
<1>7. Linked(t)
  BY <1>1, <1>2, <1>3, AppendLinked DEF Neat
<1> HIDE DEF t
<1>8. Rooted(t) /\ t[1].parent = 0 /\ \A i \in DOMAIN t : Typed(t[i].body)
  <2>1. \A i \in 1..Len(entries) : /\ entries[i].id # 0 /\ (i > 1 => entries[i].parent # 0)
                                   /\ Typed(entries[i].body)
    BY <1>1 DEF Neat, Rooted
  <2>2. entries[1].parent = 0
    BY <1>1 DEF Neat
  <2>3. Rooted(t)
    BY <1>1, <1>2, <1>3, <1>5, <2>1 DEF Rooted
  <2>4. \A i \in DOMAIN t : Typed(t[i].body)
    BY <1>3, <1>5, <2>1
  <2> QED BY <1>1, <1>5, <2>2, <2>3, <2>4
<1>9. Neat(t, nextId + 1)
  BY <1>5, <1>6, <1>7, <1>8 DEF Neat
<1>10. /\ file \in Files /\ disk \in [Files -> FileState]
       /\ disk'[file] = Flushed(t) /\ \A f \in Files : f # file => disk'[f] = disk[f]
  BY <1>4 DEF SessionShape, TypeOK
<1>11. Flushed(t) \in FileState
  BY <1>5, FlushedType
<1>12. TypeOK'
  BY <1>1, <1>4, <1>5, <1>10, <1>11 DEF SessionShape, TypeOK
<1>13. \A f \in Files : Neat(disk[f].lines, nextId) => Neat(disk[f].lines, nextId + 1)
  <2> SUFFICES ASSUME NEW f \in Files, Neat(disk[f].lines, nextId)
               PROVE  WellFormed(disk[f].lines, nextId + 1)
    BY DEF Neat
  <2> QED BY <1>1, NeatSession, LaterWellFormed DEF Neat
<1>14. leaf' \in Known'
  <2>1. Len(entries) + 1 \in DOMAIN entries' /\ entries'[Len(entries) + 1].id = nextId
    BY <1>1, <1>3, <1>4, <1>5
  <2> QED BY <1>4, <2>1 DEF Known
<1>15. Flushed(t).lines = t
  BY FlushedFacts
<1>16. ASSUME NEW f \in Files
       PROVE  disk'[f] = Absent \/ (disk'[f] = Flushed(disk'[f].lines) /\ Neat(disk'[f].lines, nextId'))
  BY <1>4, <1>9, <1>10, <1>13, <1>15 DEF SessionShape
<1> QED BY <1>4, <1>10, <1>12, <1>14, <1>16 DEF SessionShape

(* The copy of some bodies is a session of its own. *)
LEMMA CopyNeat ==
  ASSUME SessionShape, NEW bodies, Copyable(bodies), nextId + Len(bodies) <= MaxIds + 1
  PROVE  /\ CopyOf(bodies) \in Seq(Entry) /\ Len(CopyOf(bodies)) = Len(bodies)
         /\ Neat(CopyOf(bodies), nextId + Len(bodies))
<1> USE SessionConstants
<1> DEFINE t == CopyOf(bodies)
           n == Len(bodies)
<1>1. n \in Nat \ {0} /\ DOMAIN bodies = 1..n /\ \A i \in 1..n : bodies[i] \in Bodies
  BY DEF Copyable
<1>2. nextId \in Nat \ {0}
  BY NeatSession
<1>3. /\ DOMAIN t = 1..n
      /\ \A i \in 1..n : /\ t[i].id = nextId + i - 1 /\ t[i].body = bodies[i]
                         /\ t[i].parent = IF i = 1 THEN 0 ELSE nextId + i - 2
  BY <1>1 DEF CopyOf
<1>4. t \in Seq(Entry) /\ Len(t) = n
  <2>1. \A i \in 1..n : [id |-> nextId + i - 1, parent |-> IF i = 1 THEN 0 ELSE nextId + i - 2,
                         body |-> bodies[i]] \in Entry
    BY <1>1, <1>2 DEF Entry
  <2>2. t = [i \in 1..n |-> t[i]] /\ \A i \in 1..n : t[i] \in Entry
    BY <1>1, <2>1 DEF CopyOf
  <2> HIDE DEF t
  <2> QED BY <1>1, <2>2
<1> HIDE DEF t
<1>5. Ordered(t)
  BY <1>1, <1>2, <1>3 DEF Ordered
<1>6. \A i \in DOMAIN t : /\ t[i].id < nextId + n /\ t[i].parent < nextId + n
                          /\ (t[i].id = 0 => t[i].parent = 0)
  BY <1>1, <1>2, <1>3
<1>7. Rooted(t) /\ t[1].parent = 0 /\ t # <<>>
  BY <1>1, <1>2, <1>3, <1>4 DEF Rooted
<1>8. Linked(t)
  <2> SUFFICES ASSUME NEW i \in 2..n PROVE \E j \in 1..(i - 1) : t[i].parent = t[j].id
    BY <1>4 DEF Linked
  <2>1. i - 1 \in 1..(i - 1) /\ i - 1 \in 1..n /\ i \in 1..n
    BY <1>1
  <2>2. t[i].parent = nextId + i - 2
    BY <1>3, <2>1
  <2>3. t[i - 1].id = nextId + i - 2
    BY <1>2, <1>3, <2>1
  <2> QED BY <2>1, <2>2, <2>3
<1>9. \A i \in DOMAIN t : Typed(t[i].body)
  BY <1>1, <1>3 DEF Copyable
<1>10. WellFormed(t, nextId + n)
  BY <1>5, <1>6 DEF WellFormed
<1>11. Neat(t, nextId + n)
  BY <1>7, <1>8, <1>9, <1>10 DEF Neat
<1> QED BY <1>4, <1>11 DEF t

(* CopyInto makes that session. *)
LEMMA Copying ==
  ASSUME SessionShape, NEW f \in Files, NEW bodies, CopyInto(f, bodies)
  PROVE  /\ disk[f] = Absent /\ disk' = [disk EXCEPT ![f] = Flushed(CopyOf(bodies))]
         /\ nextId + Len(bodies) <= MaxIds + 1 /\ nextId' = nextId + Len(bodies)
         /\ file' = f /\ entries' = CopyOf(bodies) /\ leaf' = nextId + Len(bodies) - 1
         /\ faults' = faults
  BY DEF CopyInto, CopyOf

(* It has the shape of a session too. *)
LEMMA CopiesShape ==
  ASSUME SessionShape, NEW f \in Files, NEW bodies, Copyable(bodies), CopyInto(f, bodies)
  PROVE  SessionShape'
<1> USE SessionConstants
<1> DEFINE t == CopyOf(bodies)
           n == Len(bodies)
<1>1. n \in Nat \ {0} /\ nextId \in 1..(MaxIds + 1)
  BY NeatSession DEF Copyable
<1>2. /\ disk[f] = Absent /\ disk' = [disk EXCEPT ![f] = Flushed(t)]
      /\ nextId + n <= MaxIds + 1 /\ nextId' = nextId + n
      /\ file' = f /\ entries' = t /\ leaf' = nextId + n - 1 /\ faults' = faults
  BY Copying
<1>3. t \in Seq(Entry) /\ Len(t) = n /\ Neat(t, nextId + n)
  BY <1>2, CopyNeat
<1>4. n \in DOMAIN t /\ t[n].id = nextId + n - 1
  BY <1>1 DEF CopyOf, Copyable
<1> HIDE DEF t
<1>5. /\ disk \in [Files -> FileState]
      /\ disk'[f] = Flushed(t) /\ \A g \in Files : g # f => disk'[g] = disk[g]
  BY <1>2 DEF SessionShape, TypeOK
<1>6. Flushed(t) \in FileState
  BY <1>3, FlushedType
<1>7. TypeOK'
  BY <1>1, <1>2, <1>3, <1>5, <1>6 DEF SessionShape, TypeOK
<1>8. \A g \in Files : Neat(disk[g].lines, nextId) => Neat(disk[g].lines, nextId + n)
  <2> SUFFICES ASSUME NEW g \in Files, Neat(disk[g].lines, nextId)
               PROVE  WellFormed(disk[g].lines, nextId + n)
    BY DEF Neat
  <2> QED BY <1>1, NeatSession, LaterWellFormed DEF Neat
<1>9. leaf' \in Known'
  BY <1>2, <1>4 DEF Known
<1>10. Flushed(t).lines = t
  BY FlushedFacts
<1>11. ASSUME NEW g \in Files
       PROVE  disk'[g] = Absent \/ (disk'[g] = Flushed(disk'[g].lines) /\ Neat(disk'[g].lines, nextId'))
  BY <1>2, <1>3, <1>5, <1>8, <1>10 DEF SessionShape
<1> QED BY <1>2, <1>5, <1>7, <1>9, <1>11 DEF SessionShape

(* And so has one that is opened. *)
LEMMA OpensShape ==
  ASSUME SessionShape, NEW f \in Files, Opens(f)
  PROVE  SessionShape'
<1> DEFINE read == disk[f].lines
<1>1. disk[f] = Flushed(read) /\ Neat(read, nextId) /\ read \in Seq(Entry)
  BY NeatSession DEF Opens, SessionShape
<1>2. Len(read) \in DOMAIN read
  BY <1>1 DEF Neat
<1>3. leaf' \in Known'
  BY <1>2 DEF Opens, Known
<1>4. leaf' \in 0..MaxIds
  BY <1>1, <1>2, EntryFields DEF Opens
<1> QED BY <1>1, <1>3, <1>4 DEF Opens, SessionShape, TypeOK

(* What a branch of the session is, and what it is made of. *)
LEMMA BranchEntries ==
  ASSUME NEW s \in Seq(Entry), Tree(s)
  PROVE  \A id : BranchIn(s, id) \in Seq({s[i] : i \in DOMAIN s})
<1> DEFINE E == {s[i] : i \in DOMAIN s}
           G == Seq(E)
<1>1. <<>> \in G
  OBVIOUS
<1>2. ASSUME NEW i \in 1..Len(s), BranchIn(s, s[i].parent) \in G
      PROVE  BranchIn(s, s[i].id) \in G
  <2>1. BranchIn(s, s[i].id) = Append(BranchIn(s, s[i].parent), s[i])
    BY BranchStep
  <2>2. s[i] \in E
    OBVIOUS
  <2> HIDE DEF E
  <2> QED BY <1>2, <2>1, <2>2
<1> HIDE DEF G
<1>3. \A id : BranchIn(s, id) \in G
  BY <1>1, <1>2, BranchInduction
<1> QED BY <1>3 DEF G

(* Branch is the branch of the session in memory. *)
LEMMA BranchOf ==
  ASSUME SessionShape
  PROVE  /\ \A id \in Known : Branch(id) = BranchIn(entries, id)
         /\ \A id : Branch(id) \in Seq(Entry)
         /\ \A id : \A i \in DOMAIN Branch(id) :
              /\ Branch(id)[i].id \in Known /\ Branch(id)[i].id \in 0..MaxIds
              /\ Branch(id)[i].body \in Bodies /\ Typed(Branch(id)[i].body)
<1>1. entries \in Seq(Entry) /\ Tree(entries) /\ Neat(entries, nextId)
  BY NeatSession
<1>2. ASSUME NEW id \in Known PROVE Branch(id) = BranchIn(entries, id)
  <2>1. id # 0
    BY <1>1 DEF Known, Tree
  <2> QED BY <2>1 DEF Branch
<1>3. ASSUME NEW id
      PROVE  Branch(id) \in Seq(Entry) /\ Branch(id) \in Seq({entries[i] : i \in DOMAIN entries})
  BY <1>1, BranchStep, BranchEntries DEF Branch
<1>4. ASSUME NEW id, NEW i \in DOMAIN Branch(id)
      PROVE  /\ Branch(id)[i].id \in Known /\ Branch(id)[i].id \in 0..MaxIds
             /\ Branch(id)[i].body \in Bodies /\ Typed(Branch(id)[i].body)
  <2> DEFINE E == {entries[j] : j \in DOMAIN entries}
  <2>0. Branch(id)[i] \in E
    <3> HIDE DEF E
    <3>1. Branch(id) \in Seq(E)
      BY <1>3 DEF E
    <3> QED BY <3>1
  <2>1. PICK j \in DOMAIN entries : Branch(id)[i] = entries[j]
    BY <2>0
  <2> QED BY <1>1, <2>1, EntryFields DEF Known, Neat
<1> QED BY <1>2, <1>3, <1>4

(* The messages of a branch are messages. *)
LEMMA BranchMsgs ==
  ASSUME SessionShape
  PROVE  \A id : MsgsOf(Branch(id)) \subseteq Msgs
<1>1. \A id : \A i \in DOMAIN Branch(id) : Branch(id)[i].body.msg \in 0..MaxMsgs
  BY BranchOf, ConversationBounds DEF ConversationBodies
<1> QED BY <1>1, ConversationConstants DEF MsgsOf, Msgs

(* What is copied of a branch are bodies of it. *)
LEMMA CopiedBodies ==
  ASSUME NEW b \in Seq(Entry)
  PROVE  Copied(b) \in Seq({b[i].body : i \in DOMAIN b})
<1> DEFINE n == Len(b)
           B == {b[i].body : i \in DOMAIN b}
           V == Seq(B)
           step == [x \in (1..n) \X V |->
                      IF b[x[1]].body = Label THEN x[2] ELSE Append(x[2], b[x[1]].body)]
           pred == [i \in 1..n |-> i - 1]
           F(g) == [i \in 0..n |-> IF i = 0 THEN <<>>
                                   ELSE IF b[i].body = Label THEN g[i - 1]
                                        ELSE Append(g[i - 1], b[i].body)]
<1>1. n \in Nat /\ <<>> \in V /\ \A i \in 1..n : b[i].body \in B
  OBVIOUS
<1>2. pred \in [1..n -> 0..n] /\ \A i \in 1..n : pred[i] = i - 1 /\ pred[i] < i
  BY <1>1
<1> HIDE DEF B
<1>3. step \in [(1..n) \X V -> V]
  BY <1>1
<1>4. \A i \in 1..n, v \in V :
        step[<<i, v>>] = IF b[i].body = Label THEN v ELSE Append(v, b[i].body)
  OBVIOUS
<1> HIDE DEF step, pred, V
<1>5. PICK g \in [0..n -> V] : Solves(g, n, <<>>, pred, step)
  BY <1>1, <1>2, <1>3, RecursionHolds
<1>6. /\ g[0] = <<>>
      /\ \A i \in 1..n : g[i] = IF b[i].body = Label THEN g[i - 1] ELSE Append(g[i - 1], b[i].body)
  <2>1. ASSUME NEW i \in 1..n
        PROVE  g[i] = IF b[i].body = Label THEN g[i - 1] ELSE Append(g[i - 1], b[i].body)
    <3>1. i - 1 \in 0..n /\ g[i - 1] \in V
      BY <1>1, <1>5
    <3>2. g[i] = step[<<i, g[i - 1]>>]
      BY <1>2, <1>5 DEF Solves
    <3> QED BY <1>4, <3>1, <3>2
  <2> QED BY <1>5, <2>1 DEF Solves
<1>7. g = F(g)
  <2>1. ASSUME NEW i \in 0..n PROVE g[i] = F(g)[i]
    <3>1. CASE i = 0
      BY <1>6, <3>1
    <3>2. CASE i \in 1..n
      <4>1. g[i] = IF b[i].body = Label THEN g[i - 1] ELSE Append(g[i - 1], b[i].body)
        BY <1>6, <3>2
      <4> QED BY <3>2, <4>1
    <3> QED BY <1>1, <3>1, <3>2
  <2> QED BY <1>5, <2>1
<1>8. ASSUME NEW h, h = F(h) PROVE h = g
  <2> DEFINE K == {i \in 0..n : h[i] = g[i]}
  <2>1. \A i \in 0..n : h[i] = IF i = 0 THEN <<>> ELSE IF b[i].body = Label THEN h[i - 1]
                                        ELSE Append(h[i - 1], b[i].body)
    <3>1. \A i \in 0..n : F(h)[i] = IF i = 0 THEN <<>> ELSE IF b[i].body = Label THEN h[i - 1]
                                        ELSE Append(h[i - 1], b[i].body)
      OBVIOUS
    <3> HIDE DEF F
    <3>2. \A i \in 0..n : h[i] = F(h)[i]
      BY <1>8, Zenon
    <3> QED BY <3>1, <3>2
  <2>2. 0 \in K
    BY <1>1, <1>6, <2>1
  <2>3. ASSUME NEW i \in 1..n, pred[i] \in K PROVE i \in K
    <3>1. i \in 0..n /\ i # 0 /\ h[i - 1] = g[i - 1]
      BY <1>1, <1>2, <2>3
    <3>2. h[i] = IF b[i].body = Label THEN h[i - 1] ELSE Append(h[i - 1], b[i].body)
      BY <2>1, <3>1
    <3> QED BY <1>6, <3>1, <3>2
  <2>4. 0..n \subseteq K
    <3> HIDE DEF K
    <3> QED BY <1>1, <1>2, <2>2, <2>3, IndexInduction
  <2>5. DOMAIN h = 0..n
    BY <1>8
  <2> HIDE DEF F
  <2> QED BY <1>5, <1>7, <1>8, <2>4, <2>5 DEF F
<1>9. (CHOOSE h : h = F(h)) = g
  <2> HIDE DEF F
  <2> QED BY <1>7, <1>8
<1>10. Copied(b) = (CHOOSE h : h = F(h))[n]
  BY DEF Copied
<1>11. n \in 0..n
  BY <1>1
<1> QED BY <1>5, <1>9, <1>10, <1>11 DEF V, B

(* The bodies that the operations write. *)
LEMMA BodyType ==
  /\ \A m \in Msgs, o \in {0} \cup Models : Message(m, o) \in Bodies /\ Typed(Message(m, o))
  /\ \A o \in Models : State(o) \in Bodies /\ Typed(State(o))
  /\ Label \in Bodies /\ Typed(Label)
  /\ \A v \in SUBSET Msgs : BranchSummary(v) \in Bodies /\ Typed(BranchSummary(v))
  /\ \A c \in 0..MaxIds, v \in SUBSET Msgs : Compaction(c, v) \in Bodies
<1> USE SessionConstants, ConversationConstants
<1>1. ASSUME NEW t \in {"message", "state", "label", "compaction", "summary"},
             NEW m \in 0..MaxMsgs, NEW o \in {0, Foreign} \cup Models, NEW c \in 0..MaxIds,
             NEW v \in SUBSET Msgs
      PROVE  Body(t, m, o, c, v) \in Bodies
  BY ConversationBounds DEF Body, ConversationBodies
<1>2. 0 \in 0..MaxMsgs /\ 0 \in 0..MaxIds /\ {} \in SUBSET Msgs /\ Msgs \subseteq 0..MaxMsgs
  BY DEF Msgs
<1>3. \A m, o : Typed(Message(m, o))
  BY DEF Typed, Message, Body
<1>4. /\ \A o : Typed(State(o))
      /\ Typed(Label)
      /\ \A v : Typed(BranchSummary(v))
  BY DEF Typed, State, Label, BranchSummary, Body
<1>5. \A m \in Msgs, o \in {0} \cup Models : Message(m, o) \in Bodies
  BY <1>1, <1>2 DEF Message
<1>6. (\A o \in Models : State(o) \in Bodies) /\ Label \in Bodies
  BY <1>1, <1>2 DEF State, Label
<1>7. \A v \in SUBSET Msgs : BranchSummary(v) \in Bodies
  BY <1>1, <1>2 DEF BranchSummary
<1>8. \A c \in 0..MaxIds, v \in SUBSET Msgs : Compaction(c, v) \in Bodies
  BY <1>1, <1>2 DEF Compaction
<1> QED BY <1>3, <1>4, <1>5, <1>6, <1>7, <1>8

Forked(b) == IF \E i \in DOMAIN Copied(b) : Copied(b)[i].type = "state" THEN Copied(b)
             ELSE Append(Copied(b), State(model))

(* What is forked of a branch can be copied, and is of that branch but for a state. *)
LEMMA ForkedBodies ==
  ASSUME SessionShape, model \in Models, NEW id
  PROVE  /\ Copyable(Forked(Branch(id)))
         /\ \A i \in DOMAIN Forked(Branch(id)) :
              \/ Forked(Branch(id))[i] = State(model)
              \/ \E j \in DOMAIN Branch(id) : Forked(Branch(id))[i] = Branch(id)[j].body
<1> DEFINE b == Branch(id)
           B == {b[j].body : j \in DOMAIN b}
           c == Copied(b)
           d == Append(c, State(model))
<1>1. b \in Seq(Entry) /\ \A j \in DOMAIN b : b[j].body \in Bodies /\ Typed(b[j].body)
  BY BranchOf
<1>2. c \in Seq(B)
  BY <1>1, CopiedBodies
<1>3. \A x \in B : x \in Bodies /\ Typed(x) /\ \E j \in DOMAIN b : x = b[j].body
  BY <1>1
<1>4. State(model) \in Bodies /\ Typed(State(model))
  BY BodyType
<1> HIDE DEF B, c
<1>5. c \in Seq(Bodies) /\ \A i \in DOMAIN c : c[i] \in B
  BY <1>2, <1>3
<1>6. /\ d \in Seq(Bodies) /\ d # <<>>
      /\ \A i \in DOMAIN d : d[i] \in B \/ d[i] = State(model)
  BY <1>4, <1>5
<1>7. Forked(b) = c \/ Forked(b) = d
  BY DEF Forked, c
<1>8. Forked(b) # <<>>
  BY <1>6, <1>7 DEF Forked, c
<1> HIDE DEF b, d
<1>9. \A i \in DOMAIN Forked(b) : Forked(b)[i] \in B \/ Forked(b)[i] = State(model)
  BY <1>5, <1>6, <1>7
<1>10. Copyable(Forked(b))
  BY <1>3, <1>4, <1>5, <1>6, <1>7, <1>8, <1>9 DEF Copyable
<1>11. ASSUME NEW i \in DOMAIN Forked(b)
       PROVE  Forked(b)[i] = State(model) \/ \E j \in DOMAIN b : Forked(b)[i] = b[j].body
  BY <1>3, <1>9
<1> QED BY <1>10, <1>11 DEF b

(* A forked session is a copy of the branch. *)
LEMMA Forking ==
  ASSUME NEW f \in Files, NEW id, Fork(f, id)
  PROVE  CopyInto(f, Forked(Branch(id)))
  BY DEF Fork, Forked

(* A new session has its state. *)
LEMMA FirstBody ==
  ASSUME model \in Models
  PROVE  Copyable(<<State(model)>>) /\ Len(<<State(model)>>) = 1
  BY BodyType DEF Copyable

(* A summary goes below the entry navigated to. *)
LEMMA Navigating ==
  ASSUME ConvShape, NEW id \in Known, Navigate(id)
  PROVE  SetLeaf(id) \/ \E body \in Bodies : body.type = "summary" /\ Typed(body) /\ Grows(id, body)
<1> DEFINE v == MsgsOf(Branch(leaf)) \ MsgsOf(Branch(id))
           body == BranchSummary(v)
           e == [id |-> nextId, parent |-> id, body |-> body]
<1> SUFFICES ASSUME ~SetLeaf(id) PROVE body.type = "summary" /\ body \in Bodies /\ Typed(body) /\ Grows(id, body)
  OBVIOUS
<1>1. v \subseteq Msgs
  BY BranchMsgs DEF ConvShape
<1> HIDE DEF v
<1>2. body \in Bodies /\ Typed(body) /\ body.type = "summary"
  BY <1>1, BodyType DEF BranchSummary, Body
<1> HIDE DEF body
<1>3. /\ nextId <= MaxIds /\ entries' = Append(entries, e) /\ leaf' = nextId /\ nextId' = nextId + 1
      /\ disk' = [disk EXCEPT ![file] = Written(disk[file], e, FALSE)] /\ UNCHANGED <<file, faults>>
  BY DEF Navigate, body, v
<1>4. e \in Entry /\ entries \in Seq(Entry) /\ disk[file] = Flushed(entries)
  <2>1. id \in 0..MaxIds /\ nextId \in 1..(MaxIds + 1) /\ entries \in Seq(Entry)
    BY NeatSession, EntryFields DEF ConvShape, Known
  <2> QED BY <1>2, <1>3, <2>1, SessionConstants DEF Entry, ConvShape, SessionShape
<1>5. Written(disk[file], e, FALSE) = Flushed(Append(entries, e))
  BY <1>4, WrittenFlushed
<1> QED BY <1>2, <1>3, <1>5 DEF Grows

(* The compactions under way are a stack. *)
LEMMA Stacked ==
  ASSUME NEW S, NEW q \in Seq(S)
  PROVE  /\ \A x \in S : Append(q, x) \in Seq(S) /\ Range(Append(q, x)) = Range(q) \cup {x}
         /\ q # <<>> => /\ Last(q) \in Range(q) /\ Last(q) \in S
                        /\ Front(q) \in Seq(S) /\ Range(Front(q)) \subseteq Range(q)
<1>1. DOMAIN q = 1..Len(q) /\ Len(q) \in Nat
  OBVIOUS
<1>2. ASSUME NEW x \in S PROVE Append(q, x) \in Seq(S) /\ Range(Append(q, x)) = Range(q) \cup {x}
  <2> DEFINE t == Append(q, x)
  <2>1. /\ t \in Seq(S) /\ DOMAIN t = 1..(Len(q) + 1)
        /\ t[Len(q) + 1] = x /\ \A i \in 1..Len(q) : t[i] = q[i]
    OBVIOUS
  <2> HIDE DEF t
  <2>2. \A i \in 1..(Len(q) + 1) : i \in 1..Len(q) \/ i = Len(q) + 1
    BY <1>1
  <2>3. Len(q) + 1 \in 1..(Len(q) + 1) /\ \A i \in 1..Len(q) : i \in 1..(Len(q) + 1)
    BY <1>1
  <2>4. Range(t) = Range(q) \cup {x}
    BY <1>1, <2>1, <2>2, <2>3 DEF Range
  <2> QED BY <2>1, <2>4 DEF t
<1>3. ASSUME q # <<>>
      PROVE  /\ Last(q) \in Range(q) /\ Last(q) \in S
             /\ Front(q) \in Seq(S) /\ Range(Front(q)) \subseteq Range(q)
  <2>1. Len(q) \in 1..Len(q)
    BY <1>1, <1>3
  <2>2. Last(q) \in Range(q) /\ Last(q) \in S
    BY <1>1, <2>1 DEF Last, Range
  <2> DEFINE t == SubSeq(q, 1, Len(q) - 1)
  <2>3. t \in Seq(S) /\ DOMAIN t = 1..(Len(q) - 1) /\ \A i \in 1..(Len(q) - 1) : t[i] = q[i] /\ i \in DOMAIN q
    BY <1>1, <2>1
  <2>4. Front(q) = t
    BY DEF Front
  <2> HIDE DEF t
  <2>5. Range(t) \subseteq Range(q)
    BY <2>3 DEF Range
  <2> QED BY <2>2, <2>3, <2>4, <2>5
<1> QED BY <1>2, <1>3

(* The one that ends is one of them, and the others stay. *)
LEMMA Innermost ==
  ASSUME ConvShape, compacting # <<>>
  PROVE  /\ Last(compacting) \in Range(compacting)
         /\ Last(compacting).file \in Files /\ Last(compacting).body \in Bodies
         /\ Front(compacting) \in Seq([file : Files, body : Bodies])
         /\ Range(Front(compacting)) \subseteq Range(compacting)
<1> DEFINE S == [file : Files, body : Bodies]
<1>1. compacting \in Seq(S)
  BY DEF ConvShape
<1>2. \A x \in S : x.file \in Files /\ x.body \in Bodies
  OBVIOUS
<1> HIDE DEF S
<1>3. /\ Last(compacting) \in Range(compacting) /\ Last(compacting) \in S
      /\ Front(compacting) \in Seq(S) /\ Range(Front(compacting)) \subseteq Range(compacting)
  BY <1>1, Stacked
<1> QED BY <1>2, <1>3 DEF S

(* What any operation does to the session. *)
LEMMA Moves ==
  ASSUME ConvShape, ConvNext
  PROVE  \/ \E p, body : body \in Bodies /\ Typed(body) /\ Grows(p, body)
         \/ \E f \in Files : \E bodies : Copyable(bodies) /\ CopyInto(f, bodies)
         \/ \E f \in Files : Opens(f)
         \/ \E id \in Known : SetLeaf(id)
         \/ UNCHANGED sessionVars
<1> USE DEF ConvShape
<1>1. CASE AddMessage
  <2>1. msgs + 1 \in Msgs
    BY <1>1, ConversationConstants DEF AddMessage, Msgs
  <2>2. PICK body \in {Message(msgs + 1, 0), Message(msgs + 1, model)} : Add(body)
    BY <1>1 DEF AddMessage
  <2>3. body \in Bodies /\ Typed(body)
    BY <2>1, <2>2, BodyType
  <2> QED BY <2>2, <2>3, Appending
<1>2. CASE AddLabel
  BY <1>2, BodyType, Appending DEF AddLabel
<1>3. CASE StartCompaction
  BY <1>3 DEF StartCompaction
<1>4. CASE EndCompaction
  <2> DEFINE c == Last(compacting)
  <2> SUFFICES ASSUME Add(c.body)
               PROVE  c.body \in Bodies /\ Typed(c.body) /\ Grows(leaf, c.body)
    BY <1>4 DEF EndCompaction
  <2>1. c \in Range(compacting) /\ c.body \in Bodies
    BY <1>4, Innermost DEF EndCompaction
  <2> QED BY <2>1, Appending DEF Typed
<1>5. ASSUME NEW o \in Models, SetModel(o) PROVE \E p, body : body \in Bodies /\ Typed(body) /\ Grows(p, body)
  BY <1>5, BodyType, Appending DEF SetModel
<1>6. ASSUME NEW id \in Known, Navigate(id)
      PROVE  SetLeaf(id) \/ \E p, body : body \in Bodies /\ Typed(body) /\ Grows(p, body)
  BY <1>6, Navigating
<1>7. ASSUME NEW f \in Files, NewSession(f) PROVE \E bodies : Copyable(bodies) /\ CopyInto(f, bodies)
  BY <1>7, FirstBody DEF NewSession
<1>8. ASSUME NEW f \in Files, SwitchSession(f) PROVE Opens(f)
  BY <1>8, Opening DEF SwitchSession
<1>9. ASSUME NEW f \in Files, NEW id \in Known, Fork(f, id)
      PROVE  \E bodies : Copyable(bodies) /\ CopyInto(f, bodies)
  BY <1>9, Forking, ForkedBodies
<1> HIDE DEF ConvShape
<1> QED BY <1>1, <1>2, <1>3, <1>4, <1>5, <1>6, <1>7, <1>8, <1>9 DEF ConvNext

(* The shape is kept whatever is done to the session. *)
LEMMA MovesKeepShape ==
  ASSUME ConvShape, ConvNext \/ UNCHANGED allVars
  PROVE  SessionShape'
<1>1. CASE UNCHANGED sessionVars
  BY <1>1 DEF ConvShape, SessionShape, sessionVars, memVars, TypeOK, Known
<1>2. ASSUME NEW id \in Known, SetLeaf(id) PROVE SessionShape'
  <2>1. id \in 0..MaxIds
    BY NeatSession, EntryFields DEF ConvShape, Known
  <2> QED BY <1>2, <2>1 DEF SetLeaf, ConvShape, SessionShape, TypeOK, Known
<1>3. UNCHANGED allVars => UNCHANGED sessionVars
  BY DEF allVars
<1> QED BY <1>1, <1>2, <1>3, Moves, GrowsShape, CopiesShape, OpensShape DEF ConvShape

(* A compaction that is under way carries a cut of the branch and what lies before it. *)
LEMMA CompactionStarts ==
  ASSUME SessionShape, StartCompaction
  PROVE  \E cut \in 0..MaxIds, v \in SUBSET Msgs :
           /\ compacting' = Append(compacting, [file |-> file, body |-> Compaction(cut, v)])
           /\ \E k \in DOMAIN Branch(leaf) : Branch(leaf)[k].id = cut
           /\ v = {m \in MsgsOf(Branch(leaf)) :
                     \E i \in 1..(IndexOf(Branch(leaf), cut) - 1) : Branch(leaf)[i].body.msg = m}
<1> DEFINE b == Branch(leaf)
           like == {i \in DOMAIN b : IsMessage(b[i])}
           chosen == {b[i].id : i \in {i \in like : Cardinality({j \in like : j >= i}) = KeepRecent}}
           before(cut) == {m \in MsgsOf(b) : \E i \in 1..(IndexOf(b, cut) - 1) : b[i].body.msg = m}
<1>1. PICK cut \in chosen \cup {b[i].id : i \in DOMAIN b} :
        compacting' = Append(compacting, [file |-> file, body |-> Compaction(cut, before(cut))])
  BY DEF StartCompaction
<1> HIDE DEF before
<1>2. PICK k \in DOMAIN b : b[k].id = cut
  OBVIOUS
<1>3. cut \in 0..MaxIds
  BY <1>2, BranchOf
<1>4. before(cut) \subseteq Msgs
  BY BranchMsgs DEF before
<1> QED BY <1>1, <1>2, <1>3, <1>4 DEF before

(* In every reachable state. *)
LEMMA ConvShapeInvariant == ConvSpec => []ConvShape
<1>1. ConvInit => ConvShape
  <2> SUFFICES ASSUME ConvInit PROVE ConvShape
    OBVIOUS
  <2> USE SessionConstants, ConversationConstants, ConversationBounds
  <2> DEFINE first == [id |-> 1, parent |-> 0, body |-> State(model)]
             other == [id |-> 2, parent |-> 0, body |-> State(Foreign)]
  <2>1. first \in Entry /\ other \in Entry
    <3>1. State(model) \in Bodies
      BY BodyType DEF ConvInit
    <3>2. State(Foreign) \in Bodies
      BY DEF State, Body, ConversationBodies, Msgs
    <3> QED BY <3>1, <3>2 DEF Entry
  <2>2. Typed(first.body) /\ Typed(other.body) /\ first.body # other.body
    BY DEF Typed, State, Body, ConvInit
  <2>3. first.id = 1 /\ first.parent = 0 /\ other.id = 2 /\ other.parent = 0
    OBVIOUS
  <2>4. nextId \in {2, 3} /\ (nextId = 2 => \A f \in Files : f # file => disk[f] = Absent)
    BY DEF ConvInit
  <2>5. PICK f \in Files, o \in SUBSET {Foreign} :
          disk = [g \in Files |-> IF g = f THEN Flushed(<<first>>)
                                  ELSE IF o = {} THEN Absent ELSE Flushed(<<other>>)]
    BY DEF ConvInit
  <2> HIDE DEF first, other
  <2>6. file = f /\ disk[file] = Flushed(<<first>>) /\ entries = <<first>>
    <3>1. disk[file] = Flushed(<<first>>) \/ disk[file] = Flushed(<<other>>)
      BY <2>5 DEF ConvInit
    <3>2. disk[file].lines[1].body = first.body /\ entries = disk[file].lines
      BY DEF ConvInit, first
    <3>3. disk[file] # Flushed(<<other>>)
      <4>1. Flushed(<<other>>).lines = <<other>> /\ <<other>>[1] = other
        BY FlushedFacts
      <4> QED BY <2>2, <3>2, <4>1
    <3>4. file = f
      BY <2>5, <3>3 DEF ConvInit
    <3> QED BY <2>5, <3>2, <3>4, FlushedFacts DEF ConvInit
  <2>7. ASSUME NEW e \in {first, other}, e.id < nextId
        PROVE  Neat(<<e>>, nextId) /\ <<e>> \in Seq(Entry)
    <3>1. WellFormed(<<e>>, nextId)
      BY <2>3, <2>4, <2>7 DEF WellFormed, Ordered
    <3>2. Linked(<<e>>) /\ Rooted(<<e>>)
      BY <2>3, <2>7 DEF Linked, Rooted
    <3> QED BY <2>1, <2>2, <2>3, <2>7, <3>1, <3>2 DEF Neat
  <2>8. ASSUME NEW g \in Files
        PROVE  disk[g] \in FileState /\ (disk[g] = Absent \/ (disk[g] = Flushed(disk[g].lines)
                                                              /\ Neat(disk[g].lines, nextId)))
    <3>1. CASE disk[g] = Absent
      BY <3>1, EmptyFiles
    <3>2. ASSUME NEW e \in {first, other}, disk[g] = Flushed(<<e>>), e.id < nextId
          PROVE  disk[g] \in FileState /\ disk[g] = Flushed(disk[g].lines) /\ Neat(disk[g].lines, nextId)
      <4>1. disk[g].lines = <<e>>
        BY <3>2, FlushedFacts
      <4>2. Neat(<<e>>, nextId) /\ <<e>> \in Seq(Entry)
        BY <2>7, <3>2
      <4> QED BY <3>2, <4>1, <4>2, FlushedType
    <3>3. CASE disk[g] = Flushed(<<first>>)
      BY <2>3, <2>4, <3>2, <3>3
    <3>4. CASE disk[g] = Flushed(<<other>>) /\ g # file
      <4>1. nextId = 3
        BY <2>4, <3>4, FlushedFacts
      <4> QED BY <2>3, <3>2, <3>4, <4>1
    <3> QED BY <2>5, <2>6, <3>1, <3>3, <3>4
  <2>9. leaf = 1 /\ leaf \in Known
    BY <2>3, <2>6 DEF ConvInit, Known
  <2>10. TypeOK
    <3>1. disk \in [Files -> FileState]
      BY <2>5, <2>8
    <3>2. entries \in Seq(Entry)
      BY <2>1, <2>6
    <3> QED BY <2>4, <2>9, <3>1, <3>2 DEF TypeOK, ConvInit
  <2>11. SessionShape
    BY <2>6, <2>8, <2>9, <2>10 DEF SessionShape, ConvInit
  <2>12. compacting = <<>> /\ msgs = 0 /\ model \in Models
    BY DEF ConvInit
  <2>13. compacting \in Seq([file : Files, body : Bodies]) /\ Range(compacting) = {}
    BY <2>12 DEF Range
  <2> QED BY <2>11, <2>12, <2>13 DEF ConvShape
<1>2. ConvShape /\ [ConvNext]_allVars => ConvShape'
  <2> SUFFICES ASSUME ConvShape, ConvNext \/ UNCHANGED allVars PROVE ConvShape'
    OBVIOUS
  <2>1. SessionShape'
    BY MovesKeepShape
  <2>2. msgs' \in 0..MaxMsgs
    <3>1. msgs' = msgs \/ AddMessage
      BY DEF ConvNext, AddLabel, StartCompaction, EndCompaction, SetModel, Navigate,
             NewSession, SwitchSession, Fork, allVars, convVars
    <3>2. AddMessage => msgs' = msgs + 1 /\ msgs < MaxMsgs
      BY DEF AddMessage
    <3> QED BY <3>1, <3>2, ConversationConstants DEF ConvShape
  <2>3. model' \in Models
    BY DEF ConvNext, AddMessage, AddLabel, StartCompaction, EndCompaction, SetModel, Navigate,
           NewSession, SwitchSession, Fork, Sync, allVars, modelVars, ConvShape
  <2> DEFINE S == [file : Files, body : Bodies]
             Of(c) == c.body.type = "compaction" /\ c.body.msg = 0 /\ c.body.model = 0
  <2>4. compacting' = compacting \/ EndCompaction \/ StartCompaction
    BY DEF ConvNext, AddMessage, AddLabel, SetModel, Navigate,
           NewSession, SwitchSession, Fork, allVars, convVars
  <2>5. compacting' \in Seq(S) /\ \A c \in Range(compacting') : Of(c)
    <3>1. compacting \in Seq(S) /\ \A c \in Range(compacting) : Of(c)
      BY DEF ConvShape
    <3>2. CASE EndCompaction
      <4>1. compacting' = Front(compacting) /\ compacting # <<>>
        BY <3>2 DEF EndCompaction
      <4>2. Front(compacting) \in Seq(S) /\ Range(Front(compacting)) \subseteq Range(compacting)
        BY <4>1, Innermost
      <4> HIDE DEF S, Of
      <4> QED BY <3>1, <4>1, <4>2
    <3>3. CASE StartCompaction
      <4>1. PICK cut \in 0..MaxIds, v \in SUBSET Msgs :
              compacting' = Append(compacting, [file |-> file, body |-> Compaction(cut, v)])
        BY <3>3, CompactionStarts DEF ConvShape
      <4> DEFINE c == [file |-> file, body |-> Compaction(cut, v)]
      <4>2. c \in S
        BY BodyType DEF ConvShape, SessionShape
      <4>3. Of(c)
        BY DEF Compaction, Body
      <4> HIDE DEF c, S, Of
      <4>4. compacting' \in Seq(S) /\ Range(compacting') = Range(compacting) \cup {c}
        BY <3>1, <4>1, <4>2, Stacked DEF c
      <4> QED BY <3>1, <4>3, <4>4
    <3> HIDE DEF Of, S
    <3> QED BY <2>4, <3>1, <3>2, <3>3
  <2> QED BY <2>1, <2>2, <2>3, <2>5 DEF ConvShape
<1> QED BY <1>1, <1>2, PTL DEF ConvSpec

-----------------------------------------------------------------------------
(* No entry of a session file ever gets another line of ancestors: a message added, a
   compaction, a fork, a session left and opened again leave the branches as they were. *)
THEOREM BranchesStay == ConvSpec => BranchesFixed
<1> DEFINE Stay(f) == \A i \in DOMAIN disk[f].lines :
                        BranchIn(disk'[f].lines, disk[f].lines[i].id)
                          = BranchIn(disk[f].lines, disk[f].lines[i].id)
           Fixed == \A f \in {g \in Files : disk'[g] # disk[g]} : Stay(f)
<1>1. ConvShape /\ ConvShape' /\ [ConvNext]_allVars => [Fixed]_allVars
  <2> SUFFICES ASSUME ConvShape, ConvShape', ConvNext, NEW f \in Files, disk'[f] # disk[f]
               PROVE  Stay(f)
    OBVIOUS
  <2>0. disk \in [Files -> FileState] /\ file \in Files
    BY DEF ConvShape, SessionShape, TypeOK
  <2>1. ASSUME NEW p, NEW body, body \in Bodies, Typed(body), Grows(p, body) PROVE Stay(f)
    <3> DEFINE e == [id |-> nextId, parent |-> p, body |-> body]
    <3>1. f = file /\ disk'[f].lines = Append(entries, e) /\ disk[f].lines = entries
      <4>1. disk' = [disk EXCEPT ![file] = Flushed(Append(entries, e))]
        BY <2>1 DEF Grows
      <4>2. f = file /\ disk'[f] = Flushed(Append(entries, e)) /\ disk[f] = Flushed(entries)
        BY <2>0, <4>1 DEF ConvShape, SessionShape
      <4> QED BY <4>2, FlushedFacts
    <3>2. entries \in Seq(Entry) /\ Tree(entries)
      BY NeatSession DEF ConvShape
    <3>3. e \in Entry
      <4>1. p \in 0..MaxIds /\ nextId \in 0..MaxIds
        BY <2>1, <3>2, NeatSession, EntryFields DEF Grows, Known, ConvShape
      <4> QED BY <2>1, <4>1 DEF Entry
    <3>4. Tree(Append(entries, e))
      <4>1. SessionShape'
        BY DEF ConvShape
      <4>2. SessionShape' => Tree(entries)'
        BY NeatSession, PTL
      <4> QED BY <2>1, <4>1, <4>2 DEF Grows, Tree, Ordered
    <3> HIDE DEF e
    <3> QED BY <3>1, <3>2, <3>3, <3>4, AppendKeepsBranches
  <2>2. ASSUME NEW g \in Files, NEW bodies, CopyInto(g, bodies) PROVE Stay(f)
    <3>1. disk[g] = Absent /\ (f # g => disk'[f] = disk[f])
      BY <2>0, <2>2 DEF CopyInto
    <3>2. Absent.lines = <<>>
      BY DEF Absent, File
    <3> QED BY <3>1, <3>2
  <2>3. \A g \in Files : ~ Opens(g)
    BY DEF Opens
  <2>4. ~ UNCHANGED sessionVars /\ \A id \in Known : ~ SetLeaf(id)
    BY DEF sessionVars, SetLeaf
  <2> QED BY <2>1, <2>2, <2>3, <2>4, Moves
<1> QED BY <1>1, ConvShapeInvariant, PTL DEF ConvSpec, BranchesFixed

-----------------------------------------------------------------------------
(* The last entry of a branch that names a model, the last compaction. *)

(* A set of positions that is not empty has a last one. *)
LEMMA LastExists ==
  ASSUME NEW n \in Nat, NEW S, S \subseteq 1..n, S # {}
  PROVE  \E i \in S : \A j \in S : j <= i
<1> DEFINE K == {m \in Nat : \A T \in SUBSET (1..m) : T # {} => \E i \in T : \A j \in T : j <= i}
<1>1. 0 \in K
  <2>1. 1..0 = {}
    OBVIOUS
  <2> QED BY <2>1
<1>2. ASSUME NEW m \in Nat, m \in K PROVE m + 1 \in K
  <2> SUFFICES ASSUME NEW T \in SUBSET (1..(m + 1)), T # {}
               PROVE  \E i \in T : \A j \in T : j <= i
    OBVIOUS
  <2>1. CASE m + 1 \in T
    BY <2>1
  <2>2. CASE m + 1 \notin T
    <3>1. T \subseteq 1..m
      BY <2>2
    <3> QED BY <1>2, <3>1
  <2> QED BY <2>1, <2>2
<1> HIDE DEF K
<1>3. n \in K
  BY <1>1, <1>2, SetInduction
<1> QED BY <1>3 DEF K

(* ModelOf is the model of the last entry that names one. *)
LEMMA LastModel ==
  ASSUME NEW b \in Seq(Entry)
  PROVE  \/ ModelOf(b) = 0 /\ \A i \in DOMAIN b : b[i].body.model = 0
         \/ \E i \in DOMAIN b : /\ b[i].body.model # 0 /\ ModelOf(b) = b[i].body.model
                                /\ \A j \in DOMAIN b : b[j].body.model # 0 => j <= i
<1> DEFINE named == {i \in DOMAIN b : b[i].body.model # 0}
<1>1. CASE named = {}
  BY <1>1 DEF ModelOf
<1>2. CASE named # {}
  <2>1. \E i \in named : \A j \in named : j <= i
    <3>1. named \subseteq 1..Len(b) /\ Len(b) \in Nat
      OBVIOUS
    <3> HIDE DEF named
    <3> QED BY <1>2, <3>1, LastExists
  <2>2. Max(named) \in named /\ \A j \in named : j <= Max(named)
    <3>1. \A i, j \in named : i >= j <=> j <= i
      OBVIOUS
    <3> HIDE DEF named
    <3> QED BY <2>1, <3>1 DEF Max
  <2>3. ModelOf(b) = b[Max(named)].body.model
    BY <1>2 DEF ModelOf
  <2> QED BY <2>2, <2>3
<1> QED BY <1>1, <1>2

(* A new entry names the model of its branch, or leaves it. *)
LEMMA ModelAppended ==
  ASSUME NEW b \in Seq(Entry), NEW e \in Entry
  PROVE  ModelOf(Append(b, e)) = IF e.body.model # 0 THEN e.body.model ELSE ModelOf(b)
<1> DEFINE t == Append(b, e)
           n == Len(b)
<1>1. /\ t \in Seq(Entry) /\ n \in Nat /\ DOMAIN b = 1..n /\ DOMAIN t = 1..(n + 1)
      /\ t[n + 1] = e /\ \A i \in 1..n : t[i] = b[i]
  OBVIOUS
<1> HIDE DEF t, n
<1>2. \/ ModelOf(t) = 0 /\ \A i \in 1..(n + 1) : t[i].body.model = 0
      \/ \E i \in 1..(n + 1) : /\ t[i].body.model # 0 /\ ModelOf(t) = t[i].body.model
                               /\ \A j \in 1..(n + 1) : t[j].body.model # 0 => j <= i
  BY <1>1, LastModel
<1>3. \/ ModelOf(b) = 0 /\ \A i \in 1..n : b[i].body.model = 0
      \/ \E i \in 1..n : /\ b[i].body.model # 0 /\ ModelOf(b) = b[i].body.model
                         /\ \A j \in 1..n : b[j].body.model # 0 => j <= i
  BY <1>1, LastModel
<1>4. CASE e.body.model # 0
  <2>1. PICK i \in 1..(n + 1) : /\ ModelOf(t) = t[i].body.model
                                /\ \A j \in 1..(n + 1) : t[j].body.model # 0 => j <= i
    BY <1>1, <1>2, <1>4
  <2>2. i = n + 1
    BY <1>1, <1>4, <2>1
  <2> QED BY <1>1, <1>4, <2>1, <2>2 DEF t
<1>5. CASE e.body.model = 0 /\ \A i \in 1..n : b[i].body.model = 0
  BY <1>1, <1>2, <1>3, <1>5 DEF t
<1>6. CASE e.body.model = 0 /\ \E i \in 1..n : b[i].body.model # 0
  <2>1. PICK i \in 1..n : /\ b[i].body.model # 0 /\ ModelOf(b) = b[i].body.model
                          /\ \A j \in 1..n : b[j].body.model # 0 => j <= i
    BY <1>3, <1>6
  <2>2. i \in 1..(n + 1) /\ t[i].body.model # 0
    BY <1>1, <2>1
  <2>3. PICK k \in 1..(n + 1) : /\ t[k].body.model # 0 /\ ModelOf(t) = t[k].body.model
                                /\ \A j \in 1..(n + 1) : t[j].body.model # 0 => j <= k
    BY <1>2, <2>2
  <2>4. k \in 1..n
    BY <1>1, <1>6, <2>3
  <2>5. k = i
    BY <1>1, <2>1, <2>2, <2>3, <2>4
  <2> QED BY <1>1, <1>6, <2>1, <2>3, <2>5 DEF t
<1> QED BY <1>4, <1>5, <1>6

(* The branch of the leaf, and its model. *)
LEMMA LeafBranch ==
  SessionShape =>
    /\ entries \in Seq(Entry) /\ Tree(entries)
    /\ Branch(leaf) = BranchIn(entries, leaf) /\ Branch(leaf) \in Seq(Entry)
    /\ ModelOf(Branch(leaf)) \in {0, Foreign} \cup Models
<1> SUFFICES ASSUME SessionShape
             PROVE  /\ Branch(leaf) = BranchIn(entries, leaf) /\ Branch(leaf) \in Seq(Entry)
                    /\ ModelOf(Branch(leaf)) \in {0, Foreign} \cup Models
  BY NeatSession
<1>1. Branch(leaf) = BranchIn(entries, leaf) /\ Branch(leaf) \in Seq(Entry)
  BY BranchOf DEF SessionShape
<1>2. \A i \in DOMAIN Branch(leaf) : Branch(leaf)[i].body.model \in {0, Foreign} \cup Models
  BY BranchOf, ConversationBounds DEF ConversationBodies
<1> QED BY <1>1, <1>2, LastModel

(* So in the next state. *)
LEMMA NextLeafBranch ==
  SessionShape' =>
    (/\ entries \in Seq(Entry) /\ Tree(entries)
     /\ Branch(leaf) = BranchIn(entries, leaf) /\ Branch(leaf) \in Seq(Entry)
     /\ ModelOf(Branch(leaf)) \in {0, Foreign} \cup Models)'
  BY LeafBranch, PTL

(* A new entry's branch is that of its parent and the entry, the others stay. *)
LEMMA BranchGrows ==
  ASSUME SessionShape, SessionShape', NEW p, NEW body \in Bodies, Grows(p, body)
  PROVE  /\ [id |-> nextId, parent |-> p, body |-> body] \in Entry
         /\ Branch(leaf)' = Append(Branch(p), [id |-> nextId, parent |-> p, body |-> body])
         /\ \A i \in DOMAIN entries :
              BranchIn(Append(entries, [id |-> nextId, parent |-> p, body |-> body]), entries[i].id)
                = BranchIn(entries, entries[i].id)
<1> DEFINE e == [id |-> nextId, parent |-> p, body |-> body]
<1>1. entries \in Seq(Entry) /\ Tree(entries) /\ p \in Known
  BY NeatSession DEF Grows
<1>2. e \in Entry
  <2>1. p \in 0..MaxIds /\ nextId \in 0..MaxIds
    BY <1>1, NeatSession, EntryFields DEF Grows, Known
  <2> QED BY <2>1 DEF Entry
<1>3. Tree(Append(entries, e))
  BY NextLeafBranch DEF Grows, Tree, Ordered
<1>4. Branch(leaf)' = BranchIn(Append(entries, e), nextId)
  BY NextLeafBranch DEF Grows
<1>5. e.id = nextId /\ e.parent = p
  OBVIOUS
<1> HIDE DEF e
<1>6. \E i \in DOMAIN entries : entries[i].id = e.parent
  BY <1>1, <1>5 DEF Known
<1>7. /\ BranchIn(Append(entries, e), e.id) = Append(BranchIn(entries, e.parent), e)
      /\ \A i \in DOMAIN entries : BranchIn(Append(entries, e), entries[i].id) = BranchIn(entries, entries[i].id)
  BY <1>1, <1>2, <1>3, <1>6, AppendKeepsBranches
<1>8. Branch(p) = BranchIn(entries, p)
  BY <1>1, BranchOf
<1> QED BY <1>2, <1>4, <1>5, <1>7, <1>8 DEF e

(* Where a session was synchronised, the model follows its branch. *)
LEMMA Synced ==
  ASSUME SessionShape', Sync
  PROVE  ModelFollows'
<1> DEFINE o == ModelOf(BranchIn(entries', leaf'))
<1>2. ModelOf(Branch(leaf))' = o /\ o \in {0, Foreign} \cup Models
  BY NextLeafBranch
<1>3. model' = (IF o \in Models THEN o ELSE model) /\ drifted' = (o = Foreign)
  BY DEF Sync
<1> HIDE DEF o
<1> QED BY <1>2, <1>3 DEF ModelFollows

(* The runtime asks the model that the branch it continues was last told of. *)
THEOREM ModelFollowsBranch == ConvSpec => []ModelFollows
<1>1. ConvInit /\ ConvShape => ModelFollows
  <2> SUFFICES ASSUME ConvInit, SessionShape PROVE ModelOf(Branch(leaf)) \in {0, model}
    BY DEF ConvShape, ModelFollows
  <2>1. Len(entries) = 1 /\ entries[1].body.model = model
    <3>1. \E e : disk[file] = Flushed(<<e>>)
      BY DEF ConvInit
    <3>2. entries[1].body = State(model) /\ \E e : entries = <<e>>
      <4>1. entries = disk[file].lines /\ disk[file].lines[1].body = State(model)
        BY DEF ConvInit
      <4> QED BY <3>1, <4>1, FlushedFacts
    <3> QED BY <3>2 DEF State, Body
  <2> DEFINE E == {entries[i] : i \in DOMAIN entries}
  <2>2. Branch(leaf) \in Seq(Entry) /\ Branch(leaf) \in Seq(E)
    BY NeatSession, BranchOf, BranchEntries, LeafBranch
  <2>3. \A e \in E : e.body.model = model
    BY <2>1, NeatSession
  <2> HIDE DEF E
  <2>4. \A i \in DOMAIN Branch(leaf) : Branch(leaf)[i].body.model = model
    BY <2>2, <2>3
  <2> QED BY <2>2, <2>4, LastModel
<1>2. ModelFollows /\ ConvShape /\ ConvShape' /\ [ConvNext]_allVars => ModelFollows'
  <2> SUFFICES ASSUME ModelFollows, ConvShape, ConvShape', ConvNext \/ UNCHANGED allVars
               PROVE  ModelFollows'
    OBVIOUS
  <2>0. SessionShape /\ SessionShape' /\ model \in Models /\ Branch(leaf) \in Seq(Entry)
    BY BranchOf DEF ConvShape
  <2>1. ASSUME NEW body \in Bodies, Add(body)
        PROVE  ModelOf(Branch(leaf))' = IF body.model # 0 THEN body.model ELSE ModelOf(Branch(leaf))
    <3> DEFINE e == [id |-> nextId, parent |-> leaf, body |-> body]
    <3>1. e \in Entry /\ Branch(leaf)' = Append(Branch(leaf), e)
      BY <2>0, <2>1, Appending, BranchGrows
    <3>2. e.body = body
      OBVIOUS
    <3> HIDE DEF e
    <3>3. ModelOf(Append(Branch(leaf), e)) = IF e.body.model # 0 THEN e.body.model
                                             ELSE ModelOf(Branch(leaf))
      BY <2>0, <3>1, ModelAppended
    <3> QED BY <3>1, <3>2, <3>3
  <2>2. /\ \A o : State(o).model = o /\ \A m : Message(m, o).model = o
        /\ \A o \in Models : o # 0
    BY ConversationConstants DEF State, Message, Body
  <2>3. CASE AddMessage
    <3>1. msgs + 1 \in Msgs
      BY <2>3, ConversationConstants DEF AddMessage, Msgs, ConvShape
    <3>2. CASE Add(Message(msgs + 1, 0)) /\ UNCHANGED modelVars
      <4>1. ModelOf(Branch(leaf))' = ModelOf(Branch(leaf))
        BY <2>0, <2>1, <2>2, <3>1, <3>2, BodyType
      <4> QED BY <3>2, <4>1 DEF ModelFollows, modelVars
    <3>3. CASE Add(Message(msgs + 1, model)) /\ UNCHANGED model
      <4>0. Message(msgs + 1, model) \in Bodies /\ Message(msgs + 1, model).model = model /\ model # 0
        BY <2>0, <2>2, <3>1, BodyType
      <4>1. ModelOf(Branch(leaf))' = model
        BY <2>1, <3>3, <4>0
      <4> QED BY <3>3, <4>1 DEF ModelFollows
    <3> QED BY <2>3, <3>2, <3>3 DEF AddMessage
  <2>4. CASE AddLabel
    <3>1. Label.model = 0
      BY DEF Label, Body
    <3>2. ModelOf(Branch(leaf))' = ModelOf(Branch(leaf))
      BY <2>1, <2>4, <3>1, BodyType DEF AddLabel
    <3> QED BY <2>4, <3>2 DEF AddLabel, ModelFollows, modelVars
  <2>5. CASE UNCHANGED sessionVars /\ UNCHANGED modelVars
    BY <2>5 DEF sessionVars, memVars, modelVars, ModelFollows, Branch
  <2>6. ASSUME NEW o \in Models, SetModel(o) PROVE ModelFollows'
    <3>1. ModelOf(Branch(leaf))' = o
      BY <2>1, <2>2, <2>6, BodyType DEF SetModel
    <3> QED BY <2>6, <3>1 DEF SetModel, ModelFollows
  <2>7. CASE EndCompaction
    <3> DEFINE body == Last(compacting).body
    <3> SUFFICES ASSUME Add(body) PROVE ModelFollows'
      BY <2>5, <2>7 DEF EndCompaction
    <3>0. body \in Bodies /\ body.model = 0
      BY <2>7, Innermost DEF EndCompaction, ConvShape
    <3> HIDE DEF body
    <3>1. ModelOf(Branch(leaf))' = ModelOf(Branch(leaf))
      BY <2>1, <3>0
    <3> QED BY <2>7, <3>1 DEF EndCompaction, ModelFollows, modelVars
  <2>8. ASSUME NEW id \in Known, Navigate(id) PROVE ModelFollows'
    BY <2>8 DEF Navigate, ModelFollows
  <2>9. ASSUME NEW f \in Files, NewSession(f) PROVE ModelFollows'
    <3> DEFINE E == {entries'[i] : i \in DOMAIN entries'}
    <3>1. entries' = CopyOf(<<State(model)>>) /\ model' = model
      BY <2>0, <2>9, Copying DEF NewSession
    <3>2. \A x \in E : x.body.model = model
      BY <2>2, <3>1 DEF CopyOf
    <3>4. Branch(leaf)' \in Seq(E) /\ Branch(leaf)' \in Seq(Entry)
      BY <2>0, NextLeafBranch, BranchEntries
    <3> HIDE DEF E
    <3>5. \A i \in DOMAIN Branch(leaf)' : Branch(leaf)'[i].body.model = model
      BY <3>2, <3>4
    <3>6. ModelOf(Branch(leaf)') \in {0, model}
      BY <3>4, <3>5, LastModel
    <3> QED BY <3>1, <3>6 DEF ModelFollows
  <2>10. ASSUME NEW f \in Files, SwitchSession(f) \/ \E id \in Known : Fork(f, id) PROVE ModelFollows'
    BY <2>0, <2>10, Synced DEF SwitchSession, Fork
  <2>11. StartCompaction \/ UNCHANGED allVars => UNCHANGED sessionVars /\ UNCHANGED modelVars
    BY DEF StartCompaction, allVars
  <2> QED BY <2>3, <2>4, <2>5, <2>6, <2>7, <2>8, <2>9, <2>10, <2>11 DEF ConvNext
<1> QED BY <1>1, <1>2, ConvShapeInvariant, PTL DEF ConvSpec

-----------------------------------------------------------------------------
(* Nothing is lost.  A compaction is honest of a branch where each message before it either
   comes after the entry it keeps first, or went into its summary.  One that is under way
   is honest of every branch of its session that holds the entry it keeps, those written
   meanwhile included, as all of these begin alike: so it is where it is written, unless it
   went astray; and it stays so, as branches do.  Those that a fork copies, where ids
   change, are excepted too. *)

Honest(b, n, body) ==
  \A i \in 1..n : b[i].body.msg # 0 =>
     (\E k \in 1..i : b[k].id = body.cut) \/ b[i].body.msg \in body.covers

Excepted == recut \cup astray

AllHonest(b, out) ==
  \A c \in DOMAIN b : IsCompaction(b[c]) /\ b[c].id \notin out => Honest(b, c, b[c].body)

Branches(s) == {BranchIn(s, s[i].id) : i \in DOMAIN s}

FilesHonest == \A f \in Files : \A b \in Branches(disk[f].lines) : AllHonest(b, Excepted)

Holds(b, id) == \E k \in DOMAIN b : b[k].id = id

HonestOf(s, body) == \A b \in Branches(s) : Holds(b, body.cut) => Honest(b, Len(b), body)

Carried ==
  \A c \in Range(compacting) :
    /\ c.file \in Files /\ c.body.cut \in Nat /\ c.body.cut < nextId
    /\ HonestOf(disk[c.file].lines, c.body)

CutInv == FilesHonest /\ Carried

(* An entry at the end of a branch. *)
LEMMA HonestAppended ==
  ASSUME NEW b \in Seq(Entry), NEW e \in Entry
  PROVE  /\ \A out : /\ AllHonest(b, out)
                     /\ IsCompaction(e) /\ e.id \notin out => e.body.msg = 0 /\ Honest(b, Len(b), e.body)
              => AllHonest(Append(b, e), out)
         /\ \A body : /\ Holds(b, body.cut) => Honest(b, Len(b), body)
                      /\ e.id # body.cut /\ Holds(Append(b, e), body.cut)
              => Honest(Append(b, e), Len(Append(b, e)), body)
<1> DEFINE t == Append(b, e)
           n == Len(b)
<1>1. /\ n \in Nat /\ DOMAIN b = 1..n /\ DOMAIN t = 1..(n + 1) /\ Len(t) = n + 1
      /\ t[n + 1] = e /\ \A i \in 1..n : t[i] = b[i]
  OBVIOUS
<1> HIDE DEF t, n
<1>2. ASSUME NEW m \in 0..n, NEW body, Honest(b, m, body) PROVE Honest(t, m, body)
  <2> SUFFICES ASSUME NEW i \in 1..m, t[i].body.msg # 0
               PROVE  (\E k \in 1..i : t[k].id = body.cut) \/ t[i].body.msg \in body.covers
    BY DEF Honest
  <2>1. t[i] = b[i] /\ \A k \in 1..i : t[k] = b[k]
    BY <1>1
  <2> QED BY <1>2, <2>1 DEF Honest
<1>3. ASSUME NEW body, Honest(b, n, body),
             e.body.msg = 0 \/ \E k \in 1..(n + 1) : t[k].id = body.cut
      PROVE  Honest(t, n + 1, body)
  <2>1. Honest(t, n, body)
    BY <1>1, <1>2, <1>3
  <2>2. \A i \in 1..(n + 1) : i \in 1..n \/ i = n + 1
    BY <1>1
  <2> QED BY <1>1, <1>3, <2>1, <2>2 DEF Honest
<1>4. ASSUME NEW out, AllHonest(b, out),
             IsCompaction(e) /\ e.id \notin out => e.body.msg = 0 /\ Honest(b, n, e.body)
      PROVE  AllHonest(t, out)
  <2> SUFFICES ASSUME NEW c \in 1..(n + 1), IsCompaction(t[c]), t[c].id \notin out
               PROVE  Honest(t, c, t[c].body)
    BY <1>1 DEF AllHonest
  <2>1. CASE c \in 1..n
    <3>1. Honest(b, c, b[c].body) /\ t[c] = b[c] /\ c \in 0..n
      BY <1>1, <1>4, <2>1 DEF AllHonest
    <3> QED BY <1>2, <3>1
  <2>2. CASE c = n + 1
    BY <1>1, <1>3, <1>4, <2>2
  <2> QED BY <1>1, <2>1, <2>2
<1>5. ASSUME NEW body, Holds(b, body.cut) => Honest(b, n, body),
             e.id # body.cut, Holds(t, body.cut)
      PROVE  Honest(t, n + 1, body)
  <2>1. PICK k \in 1..(n + 1) : t[k].id = body.cut
    BY <1>1, <1>5 DEF Holds
  <2>2. k \in DOMAIN b /\ b[k].id = body.cut
    BY <1>1, <1>5, <2>1
  <2> QED BY <1>3, <1>5, <2>1, <2>2 DEF Holds
<1> QED BY <1>1, <1>4, <1>5 DEF t, n

(* An honest branch loses nothing. *)
LEMMA HonestLosesNothing ==
  ASSUME NEW b \in Seq(Entry), NEW out, AllHonest(b, out),
         LastCompaction(b) # 0 => b[LastCompaction(b)].id \notin out,
         \A i \in DOMAIN b : Typed(b[i].body)
  PROVE  Lost(b) = {}
<1> DEFINE c == LastCompaction(b)
<1> SUFFICES ASSUME NEW i \in DOMAIN b, b[i].body.msg # 0
             PROVE  b[i].body.msg \in ShownMsgs(b) \cup Summarised(b)
  BY DEF Lost, MsgsOf
<1>1. IsMessage(b[i])
  BY DEF Typed, IsMessage
<1>2. DOMAIN b = 1..Len(b) /\ Len(b) \in Nat
  OBVIOUS
<1>3. CASE c = 0
  <2>1. i \in Shown(b)
    BY <1>1, <1>2, <1>3 DEF Shown
  <2> QED BY <2>1 DEF ShownMsgs
<1>4. CASE c # 0
  <2>1. c \in DOMAIN b /\ IsCompaction(b[c])
    <3> DEFINE at == {j \in DOMAIN b : IsCompaction(b[j])}
    <3>1. at # {} /\ c = CHOOSE j \in at : \A k \in at : k <= j
      BY <1>4 DEF LastCompaction
    <3>2. \E j \in at : \A k \in at : k <= j
      <4>1. at \subseteq 1..Len(b)
        BY <1>2
      <4> HIDE DEF at
      <4> QED BY <1>2, <3>1, <4>1, LastExists
    <3>3. c \in at
      <4> HIDE DEF at, c
      <4> QED BY <3>1, <3>2
    <3> QED BY <3>3
  <2>2. Honest(b, c, b[c].body)
    BY <1>4, <2>1 DEF AllHonest
  <2>3. Summarised(b) = b[c].body.covers
    BY <1>4 DEF Summarised
  <2>4. Shown(b) = {j \in DOMAIN b : IsMessage(b[j]) /\ (j < c => \E k \in 1..j : b[k].id = b[c].body.cut)}
    BY DEF Shown
  <2> HIDE DEF c
  <2>5. CASE i < c
    <3>1. (\E k \in 1..i : b[k].id = b[c].body.cut) \/ b[i].body.msg \in b[c].body.covers
      BY <1>2, <2>1, <2>2, <2>5 DEF Honest
    <3>2. ASSUME \E k \in 1..i : b[k].id = b[c].body.cut PROVE i \in Shown(b)
      BY <1>1, <2>4, <3>2
    <3> QED BY <2>3, <3>1, <3>2 DEF ShownMsgs
  <2>6. CASE ~(i < c)
    <3>1. i \in Shown(b)
      BY <1>1, <2>4, <2>6
    <3> QED BY <3>1 DEF ShownMsgs
  <2> QED BY <2>5, <2>6
<1> QED BY <1>3, <1>4

(* The beginning of a branch, up to any entry of it, is that entry's branch. *)
LEMMA SharedStart ==
  ASSUME NEW s \in Seq(Entry), Tree(s)
  PROVE  \A id : \A k \in DOMAIN BranchIn(s, id) :
           BranchIn(s, BranchIn(s, id)[k].id) = SubSeq(BranchIn(s, id), 1, k)
<1> DEFINE G == {b \in Seq(Entry) : \A k \in DOMAIN b : BranchIn(s, b[k].id) = SubSeq(b, 1, k)}
<1>1. <<>> \in G
  OBVIOUS
<1>2. ASSUME NEW i \in 1..Len(s), BranchIn(s, s[i].parent) \in G
      PROVE  BranchIn(s, s[i].id) \in G
  <2> DEFINE b == BranchIn(s, s[i].parent)
             e == s[i]
             t == Append(b, e)
             n == Len(b)
  <2>1. BranchIn(s, s[i].id) = t
    BY BranchStep
  <2>2. b \in Seq(Entry) /\ e \in Entry /\ \A k \in DOMAIN b : BranchIn(s, b[k].id) = SubSeq(b, 1, k)
    BY <1>2
  <2> HIDE DEF b, e
  <2>3. /\ t \in Seq(Entry) /\ Len(t) = n + 1 /\ DOMAIN t = 1..(n + 1) /\ t[n + 1] = e
        /\ n \in Nat /\ DOMAIN b = 1..n /\ \A k \in 1..n : t[k] = b[k]
    BY <2>2
  <2>4. ASSUME NEW k \in 1..n PROVE SubSeq(t, 1, k) = SubSeq(b, 1, k)
    BY <2>2, <2>3
  <2>5. SubSeq(t, 1, n + 1) = t
    BY <2>2, <2>3
  <2> HIDE DEF t, n
  <2>6. ASSUME NEW k \in DOMAIN t PROVE BranchIn(s, t[k].id) = SubSeq(t, 1, k)
    <3>1. CASE k \in 1..n
      BY <2>2, <2>3, <2>4, <3>1
    <3>2. CASE k = n + 1
      BY <2>1, <2>3, <2>5, <3>2 DEF e
    <3> QED BY <2>3, <3>1, <3>2
  <2> QED BY <2>1, <2>3, <2>6
<1> HIDE DEF G
<1>3. \A id : BranchIn(s, id) \in G
  BY <1>1, <1>2, BranchInduction
<1> QED BY <1>3 DEF G

(* A compaction is honest of every branch that holds the entry it keeps. *)
LEMMA CompactionHonest ==
  ASSUME SessionShape, NEW cut, NEW v,
         \E k \in DOMAIN Branch(leaf) : Branch(leaf)[k].id = cut,
         v = {m \in MsgsOf(Branch(leaf)) :
                \E i \in 1..(IndexOf(Branch(leaf), cut) - 1) : Branch(leaf)[i].body.msg = m}
  PROVE  HonestOf(entries, Compaction(cut, v))
<1> DEFINE b == Branch(leaf)
           k == IndexOf(b, cut)
<1>1. b \in Seq(Entry) /\ b = BranchIn(entries, leaf) /\ entries \in Seq(Entry) /\ Tree(entries)
  BY LeafBranch
<1>2. v = {m \in MsgsOf(b) : \E i \in 1..(k - 1) : b[i].body.msg = m}
  OBVIOUS
<1>3. Compaction(cut, v).cut = cut /\ Compaction(cut, v).covers = v
  BY DEF Compaction, Body
<1>4. \E i \in DOMAIN b : b[i].id = cut
  OBVIOUS
<1> SUFFICES ASSUME NEW d \in Branches(entries), Holds(d, cut)
             PROVE  Honest(d, Len(d), Compaction(cut, v))
  BY <1>3 DEF HonestOf
<1> HIDE DEF b
<1>5. k \in 1..Len(b) /\ b[k].id = cut /\ DOMAIN b = 1..Len(b) /\ Len(b) \in Nat
  BY <1>1, <1>4 DEF IndexOf
<1> HIDE DEF k
<1>6. PICK id : d = BranchIn(entries, id)
  BY DEF Branches
<1>7. d \in Seq(Entry) /\ DOMAIN d = 1..Len(d) /\ Len(d) \in Nat
  BY <1>1, <1>6, BranchStep
<1>8. PICK j \in 1..Len(d) : d[j].id = cut
  BY <1>7 DEF Holds
<1>9. SubSeq(d, 1, j) = SubSeq(b, 1, k)
  <2>1. BranchIn(entries, d[j].id) = SubSeq(d, 1, j)
    BY <1>1, <1>6, <1>7, <1>8, SharedStart
  <2>2. BranchIn(entries, b[k].id) = SubSeq(b, 1, k)
    BY <1>1, <1>5, SharedStart
  <2> QED BY <1>5, <1>8, <2>1, <2>2
<1>10. j = k /\ \A i \in 1..(k - 1) : d[i] = b[i]
  <2>1. Len(SubSeq(d, 1, j)) = j /\ \A i \in 1..j : SubSeq(d, 1, j)[i] = d[i]
    BY <1>7, <1>8
  <2>2. Len(SubSeq(b, 1, k)) = k /\ \A i \in 1..k : SubSeq(b, 1, k)[i] = b[i]
    BY <1>1, <1>5
  <2>3. j = k
    BY <1>9, <2>1, <2>2
  <2>4. \A i \in 1..(k - 1) : i \in 1..k
    BY <1>5
  <2> QED BY <1>9, <2>1, <2>2, <2>3, <2>4
<1> SUFFICES ASSUME NEW i \in 1..Len(d), d[i].body.msg # 0
             PROVE  (\E l \in 1..i : d[l].id = cut) \/ d[i].body.msg \in v
  BY <1>3 DEF Honest
<1>11. CASE i < k
  <2>1. i \in 1..(k - 1) /\ i \in DOMAIN b
    BY <1>5, <1>11
  <2>2. d[i].body.msg = b[i].body.msg /\ b[i].body.msg \in MsgsOf(b)
    BY <1>10, <2>1 DEF MsgsOf
  <2> QED BY <1>2, <2>1, <2>2
<1>12. CASE ~(i < k)
  <2>1. k \in 1..i
    BY <1>5, <1>7, <1>12
  <2> QED BY <1>8, <1>10, <2>1
<1> QED BY <1>11, <1>12

(* The branches of a session to which an entry was added. *)
LEMMA GrownBranches ==
  ASSUME SessionShape, SessionShape', NEW p, NEW body \in Bodies, Grows(p, body)
  PROVE  /\ Branch(p) \in Branches(entries) /\ Branch(p) \in Seq(Entry)
         /\ disk[file].lines = entries /\ \A f \in Files : f # file => disk'[f] = disk[f]
         /\ \E e \in Entry :
              /\ e.id = nextId /\ e.body = body
              /\ \A b \in Branches(disk'[file].lines) :
                   b \in Branches(entries) \/ b = Append(Branch(p), e)
<1> DEFINE e == [id |-> nextId, parent |-> p, body |-> body]
           t == Append(entries, e)
<1>1. /\ disk \in [Files -> FileState] /\ file \in Files /\ entries \in Seq(Entry)
      /\ disk[file] = Flushed(entries) /\ disk' = [disk EXCEPT ![file] = Flushed(t)]
      /\ p \in Known
  BY DEF SessionShape, TypeOK, Grows
<1>2. disk[file].lines = entries /\ disk'[file].lines = t /\ \A f \in Files : f # file => disk'[f] = disk[f]
  <2>1. disk'[file] = Flushed(t)
    BY <1>1
  <2> QED BY <1>1, <2>1, FlushedFacts
<1>3. /\ e \in Entry
      /\ \A i \in DOMAIN entries : BranchIn(t, entries[i].id) = BranchIn(entries, entries[i].id)
      /\ BranchIn(t, nextId) = Append(Branch(p), e)
  <2>1. /\ e \in Entry /\ Branch(leaf)' = Append(Branch(p), e)
        /\ \A i \in DOMAIN entries : BranchIn(t, entries[i].id) = BranchIn(entries, entries[i].id)
    BY BranchGrows
  <2>2. Branch(leaf)' = BranchIn(t, nextId)
    BY NextLeafBranch DEF Grows
  <2> QED BY <2>1, <2>2
<1>4. e.id = nextId /\ e.body = body
  OBVIOUS
<1> HIDE DEF e
<1>5. /\ DOMAIN t = 1..(Len(entries) + 1) /\ Len(entries) \in Nat /\ DOMAIN entries = 1..Len(entries)
      /\ t[Len(entries) + 1] = e /\ \A i \in 1..Len(entries) : t[i] = entries[i]
  BY <1>1, <1>3
<1> HIDE DEF t
<1>6. Branch(p) \in Seq(Entry) /\ Branch(p) \in Branches(entries)
  <2>1. Branch(p) = BranchIn(entries, p) /\ Branch(p) \in Seq(Entry)
    BY <1>1, BranchOf
  <2> QED BY <1>1, <2>1 DEF Known, Branches
<1>7. ASSUME NEW b \in Branches(t) PROVE b \in Branches(entries) \/ b = Append(Branch(p), e)
  <2>1. PICK i \in DOMAIN t : b = BranchIn(t, t[i].id)
    BY DEF Branches
  <2>2. CASE i \in DOMAIN entries
    BY <1>3, <1>5, <2>1, <2>2 DEF Branches
  <2>3. CASE i = Len(entries) + 1
    BY <1>3, <1>4, <1>5, <2>1, <2>3
  <2> QED BY <1>5, <2>2, <2>3
<1> QED BY <1>2, <1>3, <1>4, <1>6, <1>7

(* An entry added to a session keeps the files honest, if it is honest of its branch or
   excepted... *)
LEMMA GrowsHonest ==
  ASSUME SessionShape, SessionShape', FilesHonest, Excepted \subseteq Excepted',
         NEW p, NEW body \in Bodies, Grows(p, body),
         body.type = "compaction" /\ nextId \notin Excepted'
            => body.msg = 0 /\ Honest(Branch(p), Len(Branch(p)), body)
  PROVE  FilesHonest'
<1> DEFINE old == Excepted
           out == Excepted'
<1>1. PICK e \in Entry :
        /\ e.id = nextId /\ e.body = body
        /\ \A b \in Branches(disk'[file].lines) : b \in Branches(entries) \/ b = Append(Branch(p), e)
  BY GrownBranches
<1>2. /\ Branch(p) \in Branches(entries) /\ Branch(p) \in Seq(Entry) /\ file \in Files
      /\ disk[file].lines = entries /\ \A f \in Files : f # file => disk'[f] = disk[f]
  BY GrownBranches DEF SessionShape
<1>3. \A f \in Files : \A b \in Branches(disk[f].lines) : AllHonest(b, old)
  BY DEF FilesHonest
<1>4. old \subseteq out
  OBVIOUS
<1>5. IsCompaction(e) /\ e.id \notin out => e.body.msg = 0 /\ Honest(Branch(p), Len(Branch(p)), e.body)
  BY <1>1 DEF IsCompaction
<1> HIDE DEF old, out
<1>6. \A b : AllHonest(b, old) => AllHonest(b, out)
  BY <1>4 DEF AllHonest
<1>7. AllHonest(Append(Branch(p), e), out)
  <2>1. AllHonest(Branch(p), out)
    BY <1>2, <1>3, <1>6
  <2> QED BY <1>2, <1>5, <2>1, HonestAppended
<1>8. ASSUME NEW f \in Files, NEW b \in Branches(disk'[f].lines) PROVE AllHonest(b, out)
  <2>1. CASE f = file
    BY <1>1, <1>2, <1>3, <1>6, <1>7, <2>1
  <2>2. CASE f # file
    BY <1>2, <1>3, <1>6, <2>2
  <2> QED BY <2>1, <2>2
<1> QED BY <1>8 DEF FilesHonest, out

(* ... and the compactions that are still under way. *)
LEMMA GrowsCarried ==
  ASSUME SessionShape, SessionShape', Carried, Range(compacting)' \subseteq Range(compacting),
         NEW p, NEW body \in Bodies, Grows(p, body)
  PROVE  Carried'
<1>1. PICK e \in Entry :
        /\ e.id = nextId
        /\ \A b \in Branches(disk'[file].lines) : b \in Branches(entries) \/ b = Append(Branch(p), e)
  BY GrownBranches
<1>2. /\ Branch(p) \in Branches(entries) /\ Branch(p) \in Seq(Entry)
      /\ disk[file].lines = entries /\ \A f \in Files : f # file => disk'[f] = disk[f]
  BY GrownBranches
<1>3. nextId \in Nat /\ nextId' = nextId + 1
  BY NeatSession DEF Grows
<1> SUFFICES ASSUME NEW c \in Range(compacting)'
             PROVE  /\ c.file \in Files /\ c.body.cut \in Nat /\ c.body.cut < nextId + 1
                    /\ HonestOf(disk'[c.file].lines, c.body)
  BY <1>3 DEF Carried
<1>4. /\ c.file \in Files /\ c.body.cut \in Nat /\ c.body.cut < nextId
      /\ HonestOf(disk[c.file].lines, c.body)
  BY DEF Carried
<1>5. CASE c.file = file
  <2>1. ASSUME NEW b \in Branches(disk'[file].lines), Holds(b, c.body.cut)
        PROVE  Honest(b, Len(b), c.body)
    <3>1. CASE b \in Branches(entries)
      BY <1>2, <1>4, <1>5, <2>1, <3>1 DEF HonestOf
    <3>2. CASE b = Append(Branch(p), e)
      <4>1. Holds(Branch(p), c.body.cut) => Honest(Branch(p), Len(Branch(p)), c.body)
        BY <1>2, <1>4, <1>5 DEF HonestOf
      <4>2. e.id # c.body.cut
        BY <1>1, <1>3, <1>4
      <4> QED BY <1>2, <2>1, <3>2, <4>1, <4>2, HonestAppended
    <3> QED BY <1>1, <3>1, <3>2
  <2> QED BY <1>3, <1>4, <1>5, <2>1 DEF HonestOf
<1>6. CASE c.file # file
  BY <1>2, <1>3, <1>4, <1>6
<1> QED BY <1>5, <1>6

(* A new session keeps all that, where its compactions are excepted: no entry of it is one
   that a compaction under way keeps. *)
LEMMA CopiesHonest ==
  ASSUME SessionShape, CutInv, NEW f \in Files, NEW bodies, Copyable(bodies),
         CopyInto(f, bodies), Excepted \subseteq Excepted', compacting' = compacting,
         \A i \in DOMAIN CopyOf(bodies) : IsCompaction(CopyOf(bodies)[i])
            => CopyOf(bodies)[i].id \in Excepted'
  PROVE  CutInv'
<1> DEFINE t == CopyOf(bodies)
           old == Excepted
           out == Excepted'
           E == {t[i] : i \in DOMAIN t}
<1>1. /\ disk \in [Files -> FileState] /\ disk' = [disk EXCEPT ![f] = Flushed(t)]
      /\ nextId + Len(bodies) <= MaxIds + 1 /\ nextId' = nextId + Len(bodies)
      /\ Len(bodies) \in Nat /\ nextId \in Nat
  BY Copying, NeatSession DEF SessionShape, TypeOK, Copyable
<1>2. t \in Seq(Entry) /\ Tree(t)
  BY <1>1, CopyNeat DEF Neat, WellFormed, Rooted, Tree
<1>3. \A x \in E : x.id >= nextId /\ (IsCompaction(x) => x.id \in out)
  BY <1>1 DEF CopyOf, Copyable
<1>4. disk'[f].lines = t /\ \A g : g \in Files /\ g # f => disk'[g] = disk[g]
  BY <1>1, FlushedFacts
<1>5. \A b \in Branches(t) : b \in Seq(E)
  <2> HIDE DEF t
  <2> QED BY <1>2, BranchEntries DEF Branches
<1>6. \A g \in Files : \A b \in Branches(disk[g].lines) : AllHonest(b, old)
  BY DEF CutInv, FilesHonest
<1>7. old \subseteq out
  OBVIOUS
<1> HIDE DEF t, E, old, out
<1>8. FilesHonest'
  <2>1. \A b : AllHonest(b, old) => AllHonest(b, out)
    BY <1>7 DEF AllHonest
  <2>2. ASSUME NEW b \in Branches(t) PROVE AllHonest(b, out)
    <3>1. \A c \in DOMAIN b : b[c] \in E
      BY <1>5
    <3> QED BY <1>3, <3>1 DEF AllHonest
  <2>3. \A g \in Files : \A b \in Branches(disk'[g].lines) : AllHonest(b, out)
    BY <1>4, <1>6, <2>1, <2>2
  <2> QED BY <2>3 DEF FilesHonest, out
<1>9. ASSUME NEW c \in Range(compacting)
      PROVE  /\ c.file \in Files /\ c.body.cut \in Nat /\ c.body.cut < nextId'
             /\ HonestOf(disk'[c.file].lines, c.body)
  <2>1. /\ c.file \in Files /\ c.body.cut \in Nat /\ c.body.cut < nextId
        /\ HonestOf(disk[c.file].lines, c.body)
    BY DEF CutInv, Carried
  <2>2. ASSUME NEW b \in Branches(t) PROVE ~ Holds(b, c.body.cut)
    <3>1. \A k \in DOMAIN b : b[k] \in E
      BY <1>5
    <3>2. \A x \in E : x.id # c.body.cut
      BY <1>1, <1>3, <2>1
    <3> QED BY <3>1, <3>2 DEF Holds
  <2>3. c.file = f => HonestOf(disk'[c.file].lines, c.body)
    BY <1>4, <2>2 DEF HonestOf
  <2>4. c.body.cut < nextId'
    BY <1>1, <2>1
  <2> QED BY <1>4, <2>1, <2>3, <2>4
<1>10. Carried'
  BY <1>9 DEF Carried
<1> QED BY <1>8, <1>10 DEF CutInv

(* What is honest stays so, in every reachable state. *)
LEMMA CutInvariant == ConvSpec => []CutInv
<1>1. ConvInit /\ ConvShape => CutInv
  <2> SUFFICES ASSUME ConvInit, SessionShape, NEW f \in Files, NEW id
               PROVE  AllHonest(BranchIn(disk[f].lines, id), Excepted)
    <3>1. ConvInit => Carried
      <4>1. compacting = <<>> => Range(compacting) = {}
        BY DEF Range
      <4> QED BY <4>1 DEF ConvInit, Carried
    <3> QED BY <3>1 DEF ConvShape, CutInv, FilesHonest, Branches
  <2> DEFINE s == disk[f].lines
             E == {s[i] : i \in DOMAIN s}
             b == BranchIn(s, id)
  <2>1. b \in Seq(E)
    BY NeatSession, BranchEntries
  <2>2. \A e \in E : ~ IsCompaction(e)
    <3>1. \E x : disk[f] \in {Absent, Flushed(<<[id |-> 1, parent |-> 0, body |-> State(x)]>>),
                              Flushed(<<[id |-> 2, parent |-> 0, body |-> State(x)]>>)}
      BY DEF ConvInit
    <3>2. \E x : \A i \in DOMAIN s : s[i].body = State(x)
      <4>1. CASE disk[f] = Absent
        BY <4>1 DEF Absent, File
      <4>2. ASSUME NEW x, NEW k, disk[f] = Flushed(<<[id |-> k, parent |-> 0, body |-> State(x)]>>)
            PROVE  \A i \in DOMAIN s : s[i].body = State(x)
        <5>1. s = <<[id |-> k, parent |-> 0, body |-> State(x)]>>
          BY <4>2, FlushedFacts
        <5> QED BY <5>1
      <4> QED BY <3>1, <4>1, <4>2
    <3> QED BY <3>2 DEF IsCompaction, State, Body
  <2> HIDE DEF E, b
  <2>3. \A c \in DOMAIN b : ~ IsCompaction(b[c])
    BY <2>1, <2>2
  <2> QED BY <2>3 DEF AllHonest, b
<1>2. CutInv /\ ConvShape /\ ConvShape' /\ [ConvNext]_allVars => CutInv'
  <2> SUFFICES ASSUME CutInv, ConvShape, ConvShape', ConvNext \/ UNCHANGED allVars
               PROVE  CutInv'
    OBVIOUS
  <2>0. SessionShape /\ SessionShape' /\ model \in Models /\ FilesHonest /\ Carried
    BY DEF ConvShape, CutInv
  <2>1. ASSUME UNCHANGED <<disk, nextId, convVars>> PROVE CutInv'
    BY <2>0, <2>1 DEF CutInv, FilesHonest, Carried, Excepted, convVars
  <2>2. ASSUME NEW p, NEW body \in Bodies, body.type # "compaction", Grows(p, body),
               UNCHANGED <<compacting, recut, astray>>
        PROVE  CutInv'
    <3>1. FilesHonest'
      BY <2>0, <2>2, GrowsHonest DEF Excepted
    <3>2. Carried'
      BY <2>0, <2>2, GrowsCarried
    <3> QED BY <3>1, <3>2 DEF CutInv
  <2>3. CASE AddMessage
    <3>1. msgs + 1 \in Msgs
      BY <2>3, ConversationConstants DEF AddMessage, Msgs, ConvShape
    <3>2. PICK body \in {Message(msgs + 1, 0), Message(msgs + 1, model)} : Add(body)
      BY <2>3 DEF AddMessage
    <3>3. body \in Bodies /\ body.type # "compaction"
      <4>1. \A m, o : Message(m, o).type = "message"
        BY DEF Message, Body
      <4>2. body.type = "message"
        BY <3>2, <4>1
      <4>3. body \in Bodies
        BY <2>0, <3>1, <3>2, BodyType
      <4> QED BY <4>2, <4>3
    <3> QED BY <2>0, <2>2, <2>3, <3>2, <3>3, Appending DEF AddMessage
  <2>4. CASE AddLabel
    <3>1. Label \in Bodies /\ Label.type # "compaction"
      BY BodyType DEF Label, Body
    <3> QED BY <2>0, <2>2, <2>4, <3>1, Appending DEF AddLabel, convVars
  <2>5. ASSUME NEW o \in Models, SetModel(o) PROVE CutInv'
    <3>1. State(o) \in Bodies /\ State(o).type # "compaction"
      BY BodyType DEF State, Body
    <3> QED BY <2>0, <2>2, <2>5, <3>1, Appending DEF SetModel, convVars
  <2>6. CASE StartCompaction
    <3>1. PICK cut \in 0..MaxIds, v \in SUBSET Msgs :
            /\ compacting' = Append(compacting, [file |-> file, body |-> Compaction(cut, v)])
            /\ \E k \in DOMAIN Branch(leaf) : Branch(leaf)[k].id = cut
            /\ v = {m \in MsgsOf(Branch(leaf)) :
                      \E i \in 1..(IndexOf(Branch(leaf), cut) - 1) : Branch(leaf)[i].body.msg = m}
      BY <2>0, <2>6, CompactionStarts
    <3>2. HonestOf(entries, Compaction(cut, v))
      BY <2>0, <3>1, CompactionHonest
    <3>3. cut \in Nat /\ cut < nextId
      <4>1. PICK k \in DOMAIN entries : entries[k].id = cut
        BY <2>0, <3>1, BranchOf DEF Known
      <4>2. Neat(entries, nextId)
        BY <2>0, NeatSession
      <4> QED BY <4>1, <4>2, SessionConstants DEF Neat, WellFormed
    <3>4. UNCHANGED <<disk, nextId, recut, astray>>
      BY <2>6 DEF StartCompaction, sessionVars, memVars
    <3>5. disk[file].lines = entries /\ file \in Files
      BY <2>0, FlushedFacts DEF SessionShape
    <3> DEFINE c == [file |-> file, body |-> Compaction(cut, v)]
    <3>6. c.file = file /\ c.body = Compaction(cut, v) /\ Compaction(cut, v).cut = cut
      BY DEF Compaction, Body
    <3> HIDE DEF c
    <3>7. Range(compacting') = Range(compacting) \cup {c}
      <4> DEFINE S == [file : Files, body : Bodies]
      <4>1. c \in S
        BY <3>5, BodyType DEF c
      <4>2. compacting \in Seq(S) /\ compacting' = Append(compacting, c)
        BY <3>1 DEF ConvShape, c
      <4> HIDE DEF S
      <4> QED BY <4>1, <4>2, Stacked
    <3>8. FilesHonest'
      BY <2>0, <3>4 DEF FilesHonest, Excepted
    <3>9. ASSUME NEW d \in Range(compacting)'
          PROVE  /\ d.file \in Files /\ d.body.cut \in Nat /\ d.body.cut < nextId
                 /\ HonestOf(disk[d.file].lines, d.body)
      <4>1. CASE d = c
        BY <3>2, <3>3, <3>5, <3>6, <4>1
      <4>2. CASE d \in Range(compacting)
        BY <2>0, <4>2 DEF Carried
      <4> QED BY <3>7, <4>1, <4>2
    <3>10. Carried'
      BY <3>4, <3>9 DEF Carried
    <3> QED BY <3>8, <3>10 DEF CutInv
  <2>7. CASE EndCompaction
    <3> DEFINE c == Last(compacting)
    <3>1. /\ c \in Range(compacting) /\ c.body \in Bodies /\ c.body.type = "compaction" /\ c.body.msg = 0
          /\ Range(compacting') \subseteq Range(compacting) /\ recut' = recut
      BY <2>7, Innermost DEF EndCompaction, ConvShape
    <3>2. c.file \in Files /\ HonestOf(disk[c.file].lines, c.body)
      BY <2>0, <3>1 DEF Carried
    <3>3. CASE UNCHANGED <<sessionVars, astray>>
      <4>1. UNCHANGED <<disk, nextId, recut, astray>>
        BY <3>1, <3>3 DEF sessionVars, memVars
      <4> QED BY <2>0, <3>1, <4>1 DEF CutInv, FilesHonest, Carried, Excepted
    <3>4. CASE /\ Add(c.body)
               /\ astray' = IF file = c.file /\ Holds(Branch(leaf), c.body.cut) THEN astray
                            ELSE astray \cup {nextId}
      <4> HIDE DEF c
      <4>1. Grows(leaf, c.body)
        BY <2>0, <3>1, <3>4, Appending
      <4>2. Excepted \subseteq Excepted'
        BY <3>1, <3>4 DEF Excepted
      <4>3. ASSUME nextId \notin Excepted'
            PROVE  Honest(Branch(leaf), Len(Branch(leaf)), c.body)
        <5>1. file = c.file /\ Holds(Branch(leaf), c.body.cut)
          BY <3>4, <4>3 DEF Excepted
        <5>2. disk[file].lines = entries /\ Branch(leaf) \in Branches(entries)
          BY <2>0, <3>1, <4>1, GrownBranches
        <5> QED BY <3>2, <5>1, <5>2 DEF HonestOf
      <4>4. FilesHonest'
        BY <2>0, <3>1, <4>1, <4>2, <4>3, GrowsHonest
      <4>5. Carried'
        BY <2>0, <3>1, <4>1, GrowsCarried
      <4> QED BY <4>4, <4>5 DEF CutInv
    <3> QED BY <2>7, <3>3, <3>4 DEF EndCompaction, Holds
  <2>8. ASSUME NEW id \in Known, Navigate(id) PROVE CutInv'
    <3>1. UNCHANGED convVars
      BY <2>8 DEF Navigate
    <3>2. CASE SetLeaf(id)
      BY <2>1, <3>1, <3>2 DEF SetLeaf
    <3>3. ASSUME NEW body \in Bodies, body.type = "summary", Grows(id, body) PROVE CutInv'
      BY <2>2, <3>1, <3>3 DEF convVars
    <3> QED BY <2>8, <3>2, <3>3, Navigating
  <2>9. ASSUME NEW f \in Files, NewSession(f) PROVE CutInv'
    <3>1. CopyInto(f, <<State(model)>>) /\ UNCHANGED convVars
      BY <2>9 DEF NewSession
    <3>2. \A i \in DOMAIN CopyOf(<<State(model)>>) : ~ IsCompaction(CopyOf(<<State(model)>>)[i])
      BY DEF CopyOf, IsCompaction, State, Body
    <3>3. Copyable(<<State(model)>>)
      BY <2>0, FirstBody
    <3>4. Excepted' = Excepted /\ compacting' = compacting
      BY <3>1 DEF Excepted, convVars
    <3> DEFINE bodies == <<State(model)>>
    <3> HIDE DEF bodies
    <3>5. /\ CopyInto(f, bodies) /\ Copyable(bodies)
          /\ \A i \in DOMAIN CopyOf(bodies) : ~ IsCompaction(CopyOf(bodies)[i])
      BY <3>1, <3>2, <3>3 DEF bodies
    <3> QED BY <2>0, <3>4, <3>5, CopiesHonest
  <2>10. ASSUME NEW f \in Files, NEW id \in Known, Fork(f, id) PROVE CutInv'
    <3> DEFINE bodies == Forked(Branch(id))
    <3>1. CopyInto(f, bodies) /\ Copyable(bodies)
      BY <2>0, <2>10, Forking, ForkedBodies
    <3>2. entries' = CopyOf(bodies)
      BY <2>0, <3>1, Copying
    <3>3. /\ recut' = recut \cup {entries'[i].id : i \in {j \in DOMAIN entries' : IsCompaction(entries'[j])}}
          /\ UNCHANGED <<compacting, astray>>
      BY <2>10 DEF Fork
    <3> HIDE DEF bodies
    <3>4. /\ Excepted \subseteq Excepted'
          /\ \A i \in DOMAIN CopyOf(bodies) : IsCompaction(CopyOf(bodies)[i])
               => CopyOf(bodies)[i].id \in Excepted'
      BY <3>2, <3>3 DEF Excepted
    <3> QED BY <2>0, <3>1, <3>3, <3>4, CopiesHonest
  <2>11. ASSUME NEW f \in Files, SwitchSession(f) PROVE CutInv'
    <3>1. UNCHANGED <<disk, nextId, convVars>>
      BY <2>0, <2>11, Opening DEF SwitchSession, Opens
    <3> QED BY <2>1, <3>1
  <2>12. CASE UNCHANGED allVars
    BY <2>1, <2>12 DEF allVars, sessionVars, memVars
  <2> QED BY <2>3, <2>4, <2>5, <2>6, <2>7, <2>8, <2>9, <2>10, <2>11, <2>12 DEF ConvNext
<1> QED BY <1>1, <1>2, ConvShapeInvariant, PTL DEF ConvSpec

(* Each message of a branch is shown to the model or went into the summary that is, however
   messages, settings, tree navigation, forks, sessions left and opened again and other
   compactions come between a compaction's reading of the branch and its writing.  Excepted
   are a branch whose last compaction a fork copied there, and one whose last compaction
   was written to a session or branch without the entry it keeps first. *)
THEOREM NothingIsLost == ConvSpec => []NothingLost
<1>1. CutInv /\ ConvShape => NothingLost
  <2> SUFFICES ASSUME CutInv, SessionShape, NEW id \in Known,
                      LastCompaction(Branch(id)) # 0
                        => Branch(id)[LastCompaction(Branch(id))].id \notin Excepted
               PROVE  Lost(Branch(id)) = {}
    BY DEF ConvShape, NothingLost, Excepted
  <2>1. disk[file].lines = entries /\ file \in Files
    BY FlushedFacts DEF SessionShape
  <2>2. Branch(id) = BranchIn(entries, id) /\ Branch(id) \in Seq(Entry)
        /\ \A i \in DOMAIN Branch(id) : Typed(Branch(id)[i].body)
    BY BranchOf
  <2>3. Branch(id) \in Branches(entries)
    BY <2>2 DEF Known, Branches
  <2>4. AllHonest(Branch(id), Excepted)
    BY <2>1, <2>3 DEF CutInv, FilesHonest
  <2> QED BY <2>2, <2>4, HonestLosesNothing
<1> QED BY <1>1, CutInvariant, ConvShapeInvariant, PTL
=============================================================================
