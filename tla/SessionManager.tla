---------------------------- MODULE SessionManager ----------------------------
(***************************************************************************)
(* internal/session/manager.go: the session tree of one process and the    *)
(* JSONL files it is kept in.                                              *)
(*                                                                         *)
(* An entry id is a number, drawn fresh (shortID is 32 random bits that    *)
(* nextIDSeen draws again on a collision); 0 is the empty string.  Of a    *)
(* file the model keeps what a reader can get out of it: whether the       *)
(* header can be used, the entries in its readable lines, whether the last *)
(* line ends in a newline, and whether a line exceeds the 64 KiB token of  *)
(* the bufio.Scanner that Open reads with.                                 *)
(*                                                                         *)
(* A fault is a write that fails midway (disk full, I/O error, a crash     *)
(* during the write).  A restart forgets the memory at any moment.         *)
(***************************************************************************)
EXTENDS Integers, Sequences

CONSTANTS
  Files,      \* names of session files
  NoFile,     \* the empty path
  Bodies,     \* what an entry carries apart from its place in the tree
  MaxIds,     \* ids drawn in a behaviour (bounds the model)
  MaxFaults,  \* faults in a behaviour (bounds the model)
  MaxLegacy   \* longest version 1 file found on disk (bounds the model)

ASSUME SessionConstants ==
  /\ NoFile \notin Files
  /\ MaxIds \in Nat /\ MaxFaults \in Nat /\ MaxLegacy \in Nat

VARIABLES
  disk,     \* the session directory
  file,     \* m.sessionFile
  entries,  \* m.entries; m.byID is their index
  leaf,     \* m.leafID
  nextId,   \* the next fresh id
  faults    \* history: faults so far

memVars == <<file, entries, leaf>>
sessionVars == <<disk, memVars, nextId, faults>>

Ids   == 1..MaxIds
Entry == [id : 0..MaxIds, parent : 0..MaxIds, body : Bodies]

(* header: "absent" no such file, "broken" empty or its first line is no usable
   header, "legacy" a version below 3, "current" version 3.
   tail: "none" the last line is complete, "cut" it is an unreadable fragment,
   "whole" it is readable and only lacks its newline. *)
FileState == [header : {"absent", "broken", "legacy", "current"},
              lines  : Seq(Entry),
              tail   : {"none", "cut", "whole"},
              long   : BOOLEAN]

File(h, s, t, l) == [header |-> h, lines |-> s, tail |-> t, long |-> l]
Absent           == File("absent", <<>>, "none", FALSE)
Broken           == File("broken", <<>>, "none", FALSE)

Readable(fs) == fs.header \in {"legacy", "current"}
Openable(fs) == Readable(fs) /\ ~fs.long

ListOf(n, b) ==      \* a version 1 session of n entries
  File("legacy", [i \in 1..n |-> [id |-> 0, parent |-> 0, body |-> b]], "none", FALSE)

(* The directory may hold sessions of version 1, whose entries are a list
   without ids. *)
Init ==
  /\ disk \in [Files -> {Absent} \cup {ListOf(n, b) : n \in 0..MaxLegacy, b \in Bodies}]
  /\ file = NoFile /\ entries = <<>> /\ leaf = 0
  /\ nextId = 1 /\ faults = 0

Known == {entries[i].id : i \in DOMAIN entries}

-----------------------------------------------------------------------------
(* What a write leaves on disk. *)

Unterminated(fs) ==     \* the file without the line the next write runs into
  IF fs.tail = "whole"
  THEN IF fs.lines = <<>> THEN Broken
       ELSE [fs EXCEPT !.lines = SubSeq(fs.lines, 1, Len(fs.lines) - 1)]
  ELSE fs

Longer(fs, big) == fs.long \/ big

(* A complete line: after a torn line it is glued to that one, and lost. *)
Written(fs, e, big) ==
  IF ~Readable(fs) THEN fs
  ELSE IF fs.tail = "none"
  THEN [fs EXCEPT !.lines = Append(@, e), !.long = Longer(fs, big)]
  ELSE IF Readable(Unterminated(fs))
  THEN [Unterminated(fs) EXCEPT !.tail = "none", !.long = Longer(fs, big)]
  ELSE Broken

(* A write that stopped midway: part of the line, or all but its newline. *)
Torn(fs, e, big) ==
  IF ~Readable(fs) THEN {fs}
  ELSE IF fs.tail = "none"
  THEN {[fs EXCEPT !.tail = "cut", !.long = Longer(fs, big)],
        [fs EXCEPT !.tail = "whole", !.long = Longer(fs, big), !.lines = Append(@, e)]}
  ELSE IF Readable(Unterminated(fs))
  THEN {[Unterminated(fs) EXCEPT !.tail = "cut", !.long = Longer(fs, big)]}
  ELSE {Broken}

(* flushAll truncates the file and writes the header and every entry anew;
   midway it leaves a prefix. *)
Flushed(s) == File("current", s, "none", FALSE)
FlushedInPart(s) ==
  {Broken} \cup
  UNION {{File("current", SubSeq(s, 1, k), t, FALSE) : t \in {"none", "cut", "whole"}} :
           k \in 0..Len(s)}

Fault == faults < MaxFaults /\ faults' = faults + 1

-----------------------------------------------------------------------------
(* Variants with a plausible bug each: what the properties must tell apart. *)
CreateNewAnywhere(f) ==
  /\ file' = f /\ entries' = <<>> /\ leaf' = 0
  /\ disk' = [disk EXCEPT ![f] = Flushed(<<>>)]
  /\ UNCHANGED <<nextId, faults>>

AppendEntryMemoryFirst(body, big) ==
  LET e == [id |-> nextId, parent |-> leaf, body |-> body]
  IN
  /\ file # NoFile
  /\ nextId <= MaxIds
  /\ nextId' = nextId + 1
  /\ entries' = Append(entries, e)
  /\ leaf' = nextId
  /\ \/ disk' = [disk EXCEPT ![file] = Written(@, e, big)]
     \/ UNCHANGED disk
  /\ UNCHANGED <<file, faults>>

(* CreateNew switches the memory to a fresh file before flushAll writes it. *)
CreateNew(f) ==
  /\ disk[f] = Absent
  /\ file' = f /\ entries' = <<>> /\ leaf' = 0
  /\ \/ /\ disk' = [disk EXCEPT ![f] = Flushed(<<>>)]
        /\ UNCHANGED faults
     \/ /\ Fault
        /\ \E fs \in FlushedInPart(<<>>) \cup {Absent} : disk' = [disk EXCEPT ![f] = fs]
  /\ UNCHANGED nextId

(* Any of the Append methods: a new entry below the leaf, written to the file
   and then to memory.  When the file cannot be opened nothing changes. *)
AppendEntry(body, big) ==
  LET e == [id |-> nextId, parent |-> leaf, body |-> body]
  IN
  /\ file # NoFile
  /\ disk[file].header # "absent"
  /\ nextId <= MaxIds
  /\ nextId' = nextId + 1
  /\ \/ /\ disk' = [disk EXCEPT ![file] = Written(@, e, big)]
        /\ entries' = Append(entries, e)
        /\ leaf' = nextId
        /\ UNCHANGED faults
     \/ /\ Fault
        /\ \E fs \in Torn(disk[file], e, big) : disk' = [disk EXCEPT ![file] = fs]
        /\ UNCHANGED <<entries, leaf>>
  /\ UNCHANGED file

SetLeaf(id) ==
  /\ id \in Known
  /\ leaf' = id
  /\ UNCHANGED <<disk, file, entries, nextId, faults>>

(* rebuildIndexAndMigrate: an entry without id gets one, an entry without parent
   hangs below its predecessor. *)
NewId(s, i) == IF s[i].id = 0 THEN nextId + i - 1 ELSE s[i].id
NewParentSelf(s, i)     == IF s[i].parent = 0 THEN NewId(s, i) ELSE s[i].parent
NewParentUnlinked(s, i) == s[i].parent
NewParentChained(s, i)  == IF i > 1 THEN NewId(s, i - 1) ELSE s[i].parent
NewParent(s, i) ==
  IF s[i].parent = 0 /\ i > 1 THEN NewId(s, i - 1) ELSE s[i].parent
Migrated(s) ==
  [i \in 1..Len(s) |->
     [id |-> NewId(s, i), parent |-> NewParent(s, i), body |-> s[i].body]]

(* Open reads the file, skips what it cannot parse, and writes a migrated file
   back, ignoring errors of that write.  Without entries the leaf stays. *)
Open(f) ==
  LET read  == disk[f].lines
      found == Migrated(read)
  IN
  /\ Openable(disk[f])
  /\ file' = f
  /\ entries' = found
  /\ leaf' = IF read = <<>> THEN leaf ELSE found[Len(read)].id
  /\ IF \E i \in DOMAIN read : read[i].id = 0
     THEN /\ nextId + Len(read) <= MaxIds + 1
          /\ nextId' = nextId + Len(read)
     ELSE UNCHANGED nextId
  /\ IF found = read /\ disk[f].header = "current"
     THEN UNCHANGED <<disk, faults>>
     ELSE \/ /\ disk' = [disk EXCEPT ![f] = Flushed(found)]
             /\ UNCHANGED faults
          \/ /\ Fault
             /\ \E fs \in FlushedInPart(found) \cup {disk[f]} :
                  disk' = [disk EXCEPT ![f] = fs]

(* The process ends; a new one starts with an empty Manager. *)
Restart ==
  /\ file' = NoFile /\ entries' = <<>> /\ leaf' = 0
  /\ UNCHANGED <<disk, nextId, faults>>

Next ==
  \/ \E f \in Files : CreateNew(f) \/ Open(f)
  \/ \E body \in Bodies, big \in BOOLEAN : AppendEntry(body, big)
  \/ \E id \in Known : SetLeaf(id)
  \/ Restart

Spec == Init /\ [][Next]_sessionVars

-----------------------------------------------------------------------------
(* Properties *)

(* Every variable has its type. *)
TypeOK ==
  /\ disk \in [Files -> FileState]
  /\ file \in Files \cup {NoFile}
  /\ entries \in Seq(Entry)
  /\ leaf \in 0..MaxIds
  /\ nextId \in 1..(MaxIds + 1)
  /\ faults \in 0..MaxFaults

(* No id is used twice and no entry hangs below itself or a later one.  The
   entries of a version 1 file have no id yet. *)
Ordered(s) ==
  \A i, j \in DOMAIN s : i <= j /\ s[j].id # 0 =>
    /\ s[i].parent # s[j].id
    /\ i # j => s[i].id # s[j].id

(* There is no cycle for Branch to run into and no id means two entries, in
   memory or in a file, whatever was lost in failed writes, migrated, or carried
   over from another session. *)
Acyclic ==
  /\ Ordered(entries)
  /\ \A i \in DOMAIN entries : entries[i].id # 0
  /\ \A f \in Files : Ordered(disk[f].lines)

Linked(s) == \A i \in 2..Len(s) : \E j \in 1..(i - 1) : s[i].parent = s[j].id

(* Without faults every entry after the first hangs below an earlier entry of
   its own session: each branch leads back to the first entry. *)
Lineage == faults = 0 => Linked(entries)

(* Without faults the file holds what the process does, and a new process gets that
   back from it, unless an entry is too long to be read: Open then refuses the file. *)
Durable ==
  faults = 0 /\ file # NoFile =>
    /\ disk[file].header = "current"
    /\ disk[file].tail = "none"
    /\ disk[file].lines = entries
    /\ ~disk[file].long => Openable(disk[file]) /\ Migrated(disk[file].lines) = entries

(* Files only grow: a line that can be read stays, in its place, unless a write
   fails or runs into an unterminated line.  Migration completes a legacy line. *)
LinesKept ==
  [][\A f \in Files : disk[f].tail # "whole" /\ faults' = faults =>
       \A i \in DOMAIN disk[f].lines :
         /\ i \in DOMAIN disk'[f].lines
         /\ disk[f].header = "current" => disk'[f].lines[i] = disk[f].lines[i]
         /\ disk[f].lines[i].body = disk'[f].lines[i].body]_sessionVars

=============================================================================
