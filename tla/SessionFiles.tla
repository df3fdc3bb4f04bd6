---------------------------- MODULE SessionFiles ----------------------------
(***************************************************************************)
(* The file store of sessions (session/file.go) under the adapter that     *)
(* makes a daneel.SessionStore of it (session/store.go).  A session has a  *)
(* file under its name and, while it is saved, one under its temporary     *)
(* name, which all who save the session share.  A process that has a file  *)
(* open keeps it when the name moves: fd says which name its file has now. *)
(***************************************************************************)
EXTENDS Naturals, Sequences

CONSTANTS
  Sessions,   \* Sessions: the sessions
  Slots       \* Slots: the goroutines that load and save them

VARIABLES
  named,      \* named: what the file of each session holds
  temp,       \* temp: what its temporary file holds
  fd,         \* fd: the name of the file each process has open for writing
  stale,      \* stale: the sessions whose file is older than the TTL
  condemned   \* condemned: the session the cleanup is about to remove

fileVars == <<named, temp, fd, stale, condemned>>

Data(turns, count) == [kind |-> "data", turns |-> turns, count |-> count]
Mark(kind) == [kind |-> kind, turns |-> <<>>, count |-> 0]
Missing == Mark("missing")   \* there is no such file
Empty == Mark("empty")       \* truncated and not yet written
Torn == Mark("torn")         \* written by two, neither's bytes

Readable(content) == content.kind = "data"
Nobody == "none"

FilesInit ==
  /\ named = [s \in Sessions |-> Missing]
  /\ temp = [s \in Sessions |-> Missing]
  /\ fd = [r \in Slots |-> [name |-> "closed", session |-> Nobody]]
  /\ stale = {}
  /\ condemned = Nobody

(* Mutant of Load: a session is always new.                                *)
LoadNothing(s) == Data(<<>>, 0)

(* What a load returns: no file is an empty session, an unreadable one an  *)
(* error (kind is not "data").                                             *)
Load(s) == IF named[s] = Missing THEN Data(<<>>, 0) ELSE named[s]

(* The adapter's load before a save: its error is dropped, so an           *)
(* unreadable session counts as a new one.                                 *)
ExistingCount(s) == named[s].count

(* Mutant of Open: the session's file is written in place.                 *)
OpenInPlace(r, s) ==
  /\ named' = [named EXCEPT ![s] = Empty]
  /\ fd' = [fd EXCEPT ![r] = [name |-> "named", session |-> s]]
  /\ UNCHANGED <<temp, stale, condemned>>

(* os.WriteFile opens and truncates, then writes what is to be written.    *)
Open(r, s) ==
  /\ temp' = [temp EXCEPT ![s] = Empty]
  /\ fd' = [fd EXCEPT ![r] = [name |-> "temp", session |-> s]]
  /\ UNCHANGED <<named, stale, condemned>>

(* Bytes written over those of another process may leave some of both.     *)
Over(old, new) == IF old = Empty THEN {new} ELSE {new, Torn}

Write(r, data) ==
  LET s == fd[r].session IN
  /\ \/ /\ fd[r].name = "temp"
        /\ \E c \in Over(temp[s], data) : temp' = [temp EXCEPT ![s] = c]
        /\ UNCHANGED named
     \/ /\ fd[r].name = "named"
        /\ \E c \in Over(named[s], data) : named' = [named EXCEPT ![s] = c]
        /\ UNCHANGED temp
     \/ /\ fd[r].name = "gone"
        /\ UNCHANGED <<named, temp>>
  /\ fd' = [fd EXCEPT ![r].name = "closed"]
  /\ UNCHANGED <<stale, condemned>>

(* Whoever has the old file of s open writes to a file without a name.     *)
Unlinked(s) ==
  [r \in Slots |-> IF fd[r] = [name |-> "named", session |-> s]
                   THEN [fd[r] EXCEPT !.name = "gone"] ELSE fd[r]]

(* The rename replaces the file of s.  Another may have renamed the shared *)
(* temporary file already: then it fails and the save returns an error.    *)
Rename(s) ==
  /\ IF temp[s] = Missing
     THEN UNCHANGED <<named, temp, fd, stale>>
     ELSE /\ named' = [named EXCEPT ![s] = temp[s]]
          /\ temp' = [temp EXCEPT ![s] = Missing]
          /\ fd' = [r \in Slots |->
                     IF fd[r] = [name |-> "temp", session |-> s]
                     THEN [fd[r] EXCEPT !.name = "named"] ELSE Unlinked(s)[r]]
          /\ stale' = stale \ {s}
  /\ UNCHANGED condemned

(* The write fails (a full disk): the temporary file stays as it is.       *)
WriteFails(r) ==
  /\ fd' = [fd EXCEPT ![r].name = "closed"]
  /\ UNCHANGED <<named, temp, stale, condemned>>

(* runCleanup and List read the time of a file, then remove it by name.    *)
Condemn(s) ==
  /\ condemned = Nobody
  /\ s \in stale
  /\ named[s] # Missing
  /\ condemned' = s
  /\ UNCHANGED <<named, temp, fd, stale>>

RemoveExpired ==
  /\ condemned # Nobody
  /\ named' = [named EXCEPT ![condemned] = Missing]
  /\ fd' = Unlinked(condemned)
  /\ stale' = stale \ {condemned}
  /\ condemned' = Nobody
  /\ UNCHANGED temp

GrowOld(s) ==
  /\ named[s] # Missing
  /\ s \notin stale
  /\ stale' = stale \union {s}
  /\ UNCHANGED <<named, temp, fd, condemned>>

(* The process dies: the files stay, what was open is closed.              *)
FilesCrash ==
  /\ fd' = [r \in Slots |-> [name |-> "closed", session |-> Nobody]]
  /\ condemned' = Nobody
  /\ UNCHANGED <<named, temp, stale>>

Contents ==
  [kind : {"data", "missing", "empty", "torn"}, turns : Seq(Slots), count : Nat]

FilesTypeOK ==
  /\ named \in [Sessions -> Contents]
  /\ temp \in [Sessions -> Contents]
  /\ fd \in [Slots -> [name : {"closed", "temp", "named", "gone"},
                       session : Sessions \union {Nobody}]]
  /\ stale \subseteq Sessions
  /\ condemned \in Sessions \union {Nobody}
=============================================================================
