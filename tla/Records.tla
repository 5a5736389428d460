------------------------------- MODULE Records -------------------------------
(***************************************************************************)
(* Canonical object records under the unattended importer and `verify`     *)
(* (import_source in scripts/preservation/importer.py, manifest.py,        *)
(* verification.py, storage.py and their commands): which document is      *)
(* written before which file, and what is left when a command is killed.   *)
(*                                                                         *)
(* An object is one file of one collection.  MetadataStore writes in       *)
(* place: opening a document empties it, and until it is filled it cannot  *)
(* be parsed, which makes every command that lists the records fail.       *)
(* Events are not read back: their writing is one step.                    *)
(***************************************************************************)
EXTENDS Naturals

CONSTANTS
  Objects,    \* files of the collection
  Contents,   \* what a file may hold
  Operators,  \* import and verify commands at one time
  MaxEvents,  \* event ids drawn
  NoRecord,   \* the object has no document
  Emptied     \* its document was opened for writing and says nothing

VARIABLES
  source,   \* contents of the source tree, which may change
  archive,  \* contents of the collection: whole, "torn", "absent", or put
            \* there by something else
  record,   \* the objects' documents
  events,   \* result of each import or verification event, "none" if not stored
  drawn,    \* event ids drawn so far
  op        \* each command: what it does next, and what it holds

records == <<source, archive, record, events, drawn, op>>

\* first: the import that made the object, import_event_ids[0].
EventIds == 1 .. MaxEvents
Documents == [hash : Contents, first : EventIds, history : SUBSET EventIds]
Results == {"none", "staged", "failed", "success"}

ASSUME RecordsAssumption ==
  /\ MaxEvents \in Nat
  /\ Contents \cap {"absent", "torn", "foreign"} = {}
  /\ {NoRecord, Emptied} \cap Documents = {} /\ NoRecord # Emptied

OpSteps == {"idle", "next", "look", "stage", "announce", "open", "fill", "copy", "copying",
            "conclude", "check"}

\* task: what the command does with each object left in todo; known: the
\* records listed when it began, and those it made; doc: the document it
\* writes, of object into, under event
Memory == [at : OpSteps, task : {"idle", "look", "check"}, todo : SUBSET Objects,
           known : [Objects -> Documents \cup {NoRecord}],
           object : Objects \cup {NoRecord}, into : Objects \cup {NoRecord},
           doc : Documents \cup {NoRecord}, event : 0 .. MaxEvents,
           staged : Contents \cup {NoRecord}]
NothingKnown == [o \in Objects |-> NoRecord]
OpIdle == [at |-> "idle", task |-> "idle", todo |-> {}, known |-> NothingKnown,
           object |-> NoRecord, into |-> NoRecord, doc |-> NoRecord, event |-> 0,
           staged |-> NoRecord]

OpTypeOK ==
  /\ source \in [Objects -> Contents]
  /\ archive \in [Objects -> Contents \cup {"absent", "torn", "foreign"}]
  /\ record \in [Objects -> Documents \cup {NoRecord, Emptied}]
  /\ events \in [EventIds -> Results]
  /\ drawn \in 0 .. MaxEvents
  /\ op \in [Operators -> Memory]

OpInit ==
  /\ source \in [Objects -> Contents]
  /\ archive \in [Objects -> {"absent", "foreign"}]
  /\ record = NothingKnown
  /\ events = [e \in EventIds |-> "none"]
  /\ drawn = 0
  /\ op = [c \in Operators |-> OpIdle]

At(c, step) == op[c].at = step
Become(c, next) == op' = [op EXCEPT ![c] = next]
Go(c, step) == Become(c, [op[c] EXCEPT !.at = step])
\* on to the next path, with the records known
Continue(c, known) ==
  Become(c, [OpIdle EXCEPT !.at = "next", !.task = op[c].task, !.todo = op[c].todo, !.known = known])

\* MetadataStore._read_json parses every document of the directory.
Listable == \A o \in Objects : record[o] # Emptied
Recorded == {o \in Objects : record[o] # NoRecord}
Readable == {o \in Objects : record[o] \notin {NoRecord, Emptied}}

Store(e, result) == events' = [events EXCEPT ![e] = result]
Draw(e) == e = drawn + 1 /\ drawn' = e

Replaced(doc, e) == [doc EXCEPT !.history = {e}]  \* mutant: the history is not additive
\* append_provenance and append_verification
Appended(doc, e) == [doc EXCEPT !.history = @ \cup {e}]
\* create_object
Created(o, e) == [hash |-> source[o], first |-> e, history |-> {e}]

-----------------------------------------------------------------------------
EditSource ==
  /\ \E o \in Objects, content \in Contents : source' = [source EXCEPT ![o] = content]
  /\ UNCHANGED <<archive, record, events, drawn, op>>

Start(c, task) ==
  /\ At(c, "idle") /\ Listable
  /\ Become(c, [OpIdle EXCEPT !.at = "next", !.task = task, !.known = record,
                  !.todo = IF task = "look" THEN Objects ELSE Recorded])
  /\ UNCHANGED <<source, archive, record, events, drawn>>

ImportSource(c) == Start(c, "look")
Verify(c) == Start(c, "check")

\* the next path or object; the command ends after the last one
TakeNext(c) ==
  /\ At(c, "next")
  /\ \/ op[c].todo = {} /\ Become(c, OpIdle)
     \/ \E o \in op[c].todo : Become(c, [op[c] EXCEPT !.at = op[c].task, !.object = o,
                                                      !.todo = @ \ {o}])
  /\ UNCHANGED <<source, archive, record, events, drawn>>

\* existing.get(object_id) or hash_index.get(_primary_sha256(candidate))
Duplicates(c, o) ==
  LET known == op[c].known
  IN IF known[o] # NoRecord THEN {o}
     ELSE {d \in Objects : known[d] # NoRecord /\ known[d].hash = source[o]}

\* The duplicate it appends to is the one of its listing, not the document.
AppendToDuplicate(c) ==
  /\ At(c, "look")
  /\ \E d \in Duplicates(c, op[c].object), e \in EventIds :
       /\ Draw(e) /\ Store(e, "success")
       /\ Become(c, [op[c] EXCEPT !.at = "open", !.into = d, !.doc = Appended(op[c].known[d], e)])
  /\ UNCHANGED <<source, archive, record>>

SkipConflict(c) ==
  /\ At(c, "look") /\ Duplicates(c, op[c].object) = {} /\ archive[op[c].object] # "absent"
  /\ Continue(c, op[c].known)
  /\ UNCHANGED <<source, archive, record, events, drawn>>

Candidate(c) ==
  /\ At(c, "look") /\ Duplicates(c, op[c].object) = {} /\ archive[op[c].object] = "absent"
  /\ \E e \in EventIds :
       /\ Draw(e)
       /\ Become(c, [op[c] EXCEPT !.at = "stage", !.into = op[c].object, !.event = e,
                                  !.doc = Created(op[c].object, e)])
  /\ UNCHANGED <<source, archive, record, events>>

Stage(c) ==
  /\ At(c, "stage")
  /\ Become(c, [op[c] EXCEPT !.at = "announce", !.staged = source[op[c].object]])
  /\ UNCHANGED <<source, archive, record, events, drawn>>

\* mutant: the file before its record
AnnounceAndCopy(c) ==
  /\ At(c, "announce") /\ Store(op[c].event, "staged") /\ Go(c, "copy")
  /\ UNCHANGED <<source, archive, record, drawn>>

Announce(c) ==
  /\ At(c, "announce") /\ Store(op[c].event, "staged") /\ Go(c, "open")
  /\ UNCHANGED <<source, archive, record, drawn>>

\* MetadataStore._write: write_text empties the document, then fills it.
OpenRecord(c) ==
  /\ At(c, "open")
  /\ record' = [record EXCEPT ![op[c].into] = Emptied]
  /\ Go(c, "fill")
  /\ UNCHANGED <<source, archive, events, drawn>>

FillRecord(c) ==
  /\ At(c, "fill")
  /\ record' = [record EXCEPT ![op[c].into] = op[c].doc]
  /\ IF op[c].known[op[c].into] # NoRecord THEN Continue(c, op[c].known) ELSE Go(c, "copy")
  /\ UNCHANGED <<source, archive, events, drawn>>

Place(o, content) == archive' = [archive EXCEPT ![o] = content]

OpenCopy(c) ==
  /\ At(c, "copy") /\ Place(op[c].object, "torn") /\ Go(c, "copying")
  /\ UNCHANGED <<source, record, events, drawn>>

Copy(c) ==
  /\ At(c, "copying") /\ Place(op[c].object, op[c].staged) /\ Go(c, "conclude")
  /\ UNCHANGED <<source, record, events, drawn>>

\* OSError: the record stays, the next import finds it known.
CopyFails(c) ==
  /\ At(c, "copy") \/ At(c, "copying")
  /\ Store(op[c].event, "failed") /\ Continue(c, op[c].known)
  /\ UNCHANGED <<source, archive, record, drawn>>

Conclude(c) ==
  /\ At(c, "conclude") /\ Store(op[c].event, "success")
  /\ Continue(c, [op[c].known EXCEPT ![op[c].object] = op[c].doc])
  /\ UNCHANGED <<source, archive, record, drawn>>

\* verify_object, then append_verification to the listed copy
Check(c) ==
  /\ At(c, "check")
  /\ LET o == op[c].object
     IN \E e \in EventIds :
          /\ Draw(e)
          /\ Store(e, IF archive[o] = op[c].known[o].hash THEN "success" ELSE "failed")
          /\ Become(c, [op[c] EXCEPT !.at = "open", !.into = o, !.doc = Appended(op[c].known[o], e)])
  /\ UNCHANGED <<source, archive, record>>

\* The command is killed, or a call outside import_source's try raises.
Crash(c) ==
  /\ ~At(c, "idle") /\ Become(c, OpIdle)
  /\ UNCHANGED <<source, archive, record, events, drawn>>

OpNext ==
  \/ EditSource
  \/ \E c \in Operators :
       \/ ImportSource(c) \/ Verify(c) \/ TakeNext(c) \/ AppendToDuplicate(c) \/ SkipConflict(c)
       \/ Candidate(c) \/ Stage(c) \/ Announce(c) \/ OpenRecord(c) \/ FillRecord(c)
       \/ OpenCopy(c) \/ Copy(c) \/ CopyFails(c) \/ Conclude(c) \/ Check(c) \/ Crash(c)

OpSpec == OpInit /\ [][OpNext]_records

-----------------------------------------------------------------------------
(* Properties.                                                             *)

\* A file of the collection always has a record, whatever was killed; every
\* event a record that can be read names is stored; and a file cut short is never
\* one whose record names its import as a success.
RecordsAreBacked ==
  /\ \A o \in Objects : archive[o] \in Contents \cup {"torn"} => record[o] # NoRecord
  /\ \A o \in Readable :
       /\ \A e \in record[o].history : events[e] # "none"
       /\ archive[o] = "torn" => events[record[o].first] # "success"

\* For one command at a time: what a record said when the running command listed
\* it stays in the record, but for the one the command has emptied and is about
\* to fill.  A kill at that point loses that record's history, which no later
\* command brings back, and never another's: from then on no command lists.
ListedHistoryIsKept ==
  /\ \A c \in Operators, o \in Objects : op[c].known[o] # NoRecord =>
       \/ o \in Readable /\ op[c].known[o].history \subseteq record[o].history
       \/ record[o] = Emptied /\ At(c, "fill") /\ op[c].into = o
  /\ \A o, d \in Recorded \ Readable : o = d

\* append_provenance's docstring: provenance is additive, existing history is
\* retained.  Not so within one import: two files that are duplicates of one
\* object both append to the listed copy, and the second drops the first.
HistoryGrows ==
  \A c \in Operators : At(c, "open") /\ op[c].into \in Readable =>
    record[op[c].into].history \subseteq op[c].doc.history
=============================================================================
