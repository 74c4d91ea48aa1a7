------------------------------ MODULE FileParts ------------------------------
(***************************************************************************)
(* --save-fileparts: the file parts of what an agent sends, written into   *)
(* one directory for the length of one invocation (fileparts.rs), over a   *)
(* stream that may be cut and resumed: the events of a cut are lost, and   *)
(* the first event after it is the whole task.                             *)
(*                                                                         *)
(* A path is a sequence of components, a component a name: <<"r">>, and    *)
(* <<"r", 1>> for "r (1)".  The bytes of a part are its number, 0 if it is *)
(* not a file part.                                                        *)
(***************************************************************************)
EXTENDS Integers, Sequences, SequencesExt

CONSTANTS
  Artifacts, Messages,   \* ids of artifacts and of status messages
  Fallback,              \* [Artifacts -> raw name]: the artifact's own name
  Filenames,             \* raw file names of parts, NoName among them
  MaxParts               \* parts sent

NoName == <<>>

Owner == Artifacts \union Messages

ASSUME FileConstants ==
  /\ Artifacts \intersect Messages = {} /\ MaxParts \in Nat
  /\ DOMAIN Fallback = Artifacts

VARIABLES
  sent,       \* [Owner -> sequence of parts]: what the agent holds
  parts,      \* how many parts it has made
  status,     \* its status message, "none" if it has none
  insync,     \* whether the client has seen every event so far
  reserved,   \* FilePartSaver.reserved: [name -> sequence of owners]
  disk,       \* [path -> sequence of bytes]
  saving,     \* whether the invocation still runs
  dropped     \* history: [Owner -> names], of files a replacement left out

fileVars == <<sent, parts, status, insync, reserved, disk, saving, dropped>>

-----------------------------------------------------------------------------
(* Names.                                                                  *)

(* clean_name: the last component that is not empty, unless it is a dot.   *)
CleanName(raw) ==
  LET some == SelectSeq(raw, LAMBDA c : c # <<>>)
  IN  IF some = <<>> \/ Last(some) \in {<<".">>, <<"..">>} THEN NoName ELSE Last(some)

FallbackOf(o) == IF o \in Messages THEN <<<<"status-msg">>>> ELSE Fallback[o]

ResolveName(p, o) ==
  LET own == CleanName(p.filename) other == CleanName(FallbackOf(o))
  IN  CASE own # NoName -> own
        [] own = NoName /\ other # NoName -> other
        [] OTHER -> <<"filepart">>

Numbered(name, n) == Append(name, n)

Name == {ResolveName([filename |-> f], o) : f \in Filenames, o \in Owner}

FilePath ==
  Name \union {Numbered(n, k) : n \in Name, k \in 1 .. Len(SetToSeq(Owner))}

-----------------------------------------------------------------------------
(* FilePartSaver.                                                          *)

PositionOf(o, owners) == CHOOSE i \in DOMAIN owners : owners[i] = o

PathOf(res, o, name) ==
  LET i == PositionOf(o, res[name]) IN IF i = 1 THEN name ELSE Numbered(name, i - 1)

IsNew(res, o, name) == o \notin Range(res[name])

(* reserve: the owner's path for a name, kept for the next time.           *)
Reserve(res, o, name) ==
  IF IsNew(res, o, name) THEN [res EXCEPT ![name] = Append(@, o)] ELSE res

(* The parts of one owner that share a name are joined.                    *)
Joined(o, ps) ==
  LET Add(files, p) ==
        LET name == ResolveName(p, o)
            same == {i \in DOMAIN files : files[i].name = name}
        IN  IF same = {} THEN Append(files, [name |-> name, data |-> <<p.bytes>>])
            ELSE [files EXCEPT ![CHOOSE i \in same : TRUE].data = Append(@, p.bytes)]
  IN  FoldLeft(Add, <<>>, SelectSeq(ps, LAMBDA p : p.bytes # 0))

(* write_file.                                                             *)
WriteFile(d, path, data, append) ==
  [d EXCEPT ![path] = IF append THEN @ \o data ELSE data]

(* save, one file of it.                                                   *)
(* Slip: an append extends whatever file is there.                         *)
PutAppends(st, w) ==
  LET res == Reserve(st.reserved, w.owner, w.name)
  IN  [reserved |-> res,
       disk |-> WriteFile(st.disk, PathOf(res, w.owner, w.name), w.data, w.append)]

Put(st, w) ==
  LET res == Reserve(st.reserved, w.owner, w.name)
  IN  [reserved |-> res,
       disk |-> WriteFile(st.disk, PathOf(res, w.owner, w.name), w.data,
                          w.append /\ ~IsNew(st.reserved, w.owner, w.name))]

(* What save writes of one message or artifact.                            *)
Writes(o, ps, append) ==
  LET files == Joined(o, ps)
  IN  [i \in DOMAIN files |->
         [owner |-> o, name |-> files[i].name, data |-> files[i].data, append |-> append]]

SaveMessage(m, ps) == Writes(m, ps, FALSE)

(* save_task: the artifacts, in the order of the task, then its message.   *)
SaveTask(order) ==
  FlattenSeq([i \in DOMAIN order |-> Writes(order[i], sent[order[i]], FALSE)])
    \o (IF status = "none" THEN <<>> ELSE SaveMessage(status, sent[status]))

-----------------------------------------------------------------------------

FilesInit ==
  /\ sent = [o \in Owner |-> <<>>] /\ parts = 0 /\ status = "none"
  /\ insync = TRUE /\ saving = TRUE /\ dropped = [o \in Owner |-> {}]
  /\ reserved = [n \in Name |-> <<>>]
  /\ disk = [p \in FilePath |-> <<0>>]        \* left by an earlier invocation

(* A response is saved, or a write of it fails and the command ends.       *)
SaveTo(ws) ==
  \E n \in 0 .. Len(ws) :
    LET st == FoldLeft(Put, [reserved |-> reserved, disk |-> disk], SubSeq(ws, 1, n))
    IN  reserved' = st.reserved /\ disk' = st.disk /\ saving' = (n = Len(ws))

FileNames(o, ps) == {f.name : f \in Range(Joined(o, ps))}

FilePart(f) == [filename |-> f, bytes |-> parts + 1]
TextPart == [filename |-> NoName, bytes |-> 0]

(* An artifact update: new parts, in place of the old ones or after them.  *)
ArtifactUpdate ==
  /\ saving /\ parts < MaxParts
  /\ \E a \in Artifacts, part \in {FilePart(f) : f \in Filenames} \union {TextPart}, append \in BOOLEAN :
       LET new == <<part>>
       IN  /\ sent' = [sent EXCEPT ![a] = IF append THEN @ \o new ELSE new]
           /\ dropped' = [dropped EXCEPT ![a] = @ \union (FileNames(a, sent[a]) \ FileNames(a, sent'[a]))]
           /\ IF insync THEN SaveTo(Writes(a, new, append))
                        ELSE UNCHANGED <<reserved, disk, saving>>
  /\ parts' = parts + 1 /\ UNCHANGED <<status, insync>>

(* A status update with a message the agent has not sent before.           *)
StatusUpdate ==
  /\ saving /\ parts < MaxParts
  /\ \E m \in Messages, f \in Filenames :
       /\ sent[m] = <<>>
       /\ sent' = [sent EXCEPT ![m] = <<FilePart(f)>>] /\ status' = m
       /\ IF insync THEN SaveTo(SaveMessage(m, sent'[m]))
                    ELSE UNCHANGED <<reserved, disk, saving>>
  /\ parts' = parts + 1 /\ UNCHANGED <<insync, dropped>>

Cut ==
  /\ saving /\ insync /\ insync' = FALSE
  /\ UNCHANGED <<sent, parts, status, reserved, disk, saving, dropped>>

(* The first event after a reconnect: the task, its artifacts in any order *)
(* (and the same for the answer of a call without a stream).               *)
Resume ==
  /\ saving /\ insync' = TRUE /\ UNCHANGED <<sent, parts, status, dropped>>
  /\ \E order \in SetToSeqs({a \in Artifacts : sent[a] # <<>>}) : SaveTo(SaveTask(order))

FilesNext == ArtifactUpdate \/ StatusUpdate \/ Cut \/ Resume

-----------------------------------------------------------------------------

FilesTypeOK ==
  /\ parts \in 0 .. MaxParts /\ insync \in BOOLEAN /\ saving \in BOOLEAN
  /\ DOMAIN disk = FilePath /\ DOMAIN reserved = Name
  /\ status \in Messages \union {"none"}

(* Whether the number given to a later owner of one name makes the name of *)
(* another file.                                                           *)
Clash(o, n) ==
  \E p \in Name \ {n} : \E q \in Range(reserved[p]) :
    PathOf(reserved, q, p) = PathOf(reserved, o, n)

(* Whatever was cut, resumed, replaced and appended, once the client has   *)
(* seen the task again every file named by an artifact, or by the status   *)
(* message, holds exactly that owner's bytes, in order, and none of what   *)
(* an earlier invocation or another owner of the same name wrote.  (Not so *)
(* when a numbered name clashes, as "r (1)" sent beside two files "r", or  *)
(* when an artifact was replaced without a file it then appends to.)       *)
FilesIntact ==
  saving /\ insync =>
    \A o \in Artifacts \union ({status} \ {"none"}) : \A f \in Range(Joined(o, sent[o])) :
      /\ ~IsNew(reserved, o, f.name)
      /\ \/ disk[PathOf(reserved, o, f.name)] = f.data
         \/ Clash(o, f.name) \/ f.name \in dropped[o]

=============================================================================
