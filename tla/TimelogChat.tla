------------------------------ MODULE TimelogChat ------------------------------
(***************************************************************************)
(* The chat socket (timelog_chat in src/app/api/v1/time_log.py) and the    *)
(* two files every connection of every worker shares: team_state.json and  *)
(* team_history.json (src/app/ai/teams/time_log.py).                       *)
(*                                                                         *)
(* A connection is a coroutine; between two awaits it is one step.  Files  *)
(* are opened with mode "w", which empties them at once, and written later *)
(* from offset 0 in one write.                                             *)
(*                                                                         *)
(* Faults selects what may go wrong:                                       *)
(*   "team"  building the team, an agent or a send to the client raises    *)
(*   "save"  team.save_state or a write raises                             *)
(*   "kill"  the task is cancelled or its worker dies                      *)
(***************************************************************************)
EXTENDS Naturals, FiniteSets

CONSTANTS Conn,      \* socket connections, over all workers
          MaxTurns,  \* bound: turns taken by one connection identity
          MaxLen,    \* bound: distinguishable lengths of a written file
          Faults     \* subset of FaultKinds

FaultKinds == {"team", "save", "kill"}

ASSUME ConstantsAssumption ==
  /\ MaxTurns \in Nat /\ MaxLen \in Nat \ {0}
  /\ Faults \subseteq FaultKinds

VARIABLES stage,        \* stage[c]: the await connection c is at
          speaker,      \* speaker[c]: who speaks next in c's team
          turn,         \* turn[c]: turns c has started
          mem,          \* mem[c]: the turns whose messages c's list holds
          stateFile,    \* team_state.json
          historyFile,  \* team_history.json
          broken,       \* history: turns whose state save was cut short, or
                        \* began while another was going on
          disturbed     \* history: turns whose saving of the two files was cut
                        \* short, or overlapped another turn's

vars == <<stage, speaker, turn, mem, stateFile, historyFile, broken, disturbed>>

Stage == {"closed", "receive", "build", "exists", "read", "stream", "ask",
          "open_state", "save_state", "write_state",
          "open_history", "write_history", "error"}

Speaker == {"task", "github", "calendar", "timelog", "user"}

Turn == Conn \X (0..MaxTurns)   \* turn 0 is never taken

(* What a file holds: turns are those its JSON is about when it is whole,  *)
(* len its length on disk.  "torn" is a short text over a longer one.      *)
File == [body  : {"absent", "empty", "whole", "torn"},
         turns : SUBSET Turn,
         len   : 0..MaxLen]

Absent == [body |-> "absent", turns |-> {}, len |-> 0]
Emptied == [body |-> "empty", turns |-> {}, len |-> 0]

TypeOK ==
  /\ stage \in [Conn -> Stage]
  /\ speaker \in [Conn -> Speaker]
  /\ turn \in [Conn -> 0..MaxTurns]
  /\ mem \in [Conn -> SUBSET Turn]
  /\ stateFile \in File
  /\ historyFile \in File
  /\ broken \subseteq Turn
  /\ disturbed \subseteq Turn

ThisTurn(c) == <<c, turn[c]>>

(* open(path, "w"): O_TRUNC.                                               *)
Opened(file) == Emptied

(* Mutant of Written: the file is opened for appending.                    *)
WrittenAppending(file, ts, n) ==
  [body |-> IF file.len = 0 THEN "whole" ELSE "torn",
   turns |-> IF file.len = 0 THEN ts ELSE {}, len |-> file.len + n]

(* A single write at offset 0 of n bytes, over what is there now.          *)
Written(file, ts, n) ==
  IF n >= file.len THEN [body |-> "whole", turns |-> ts, len |-> n]
                   ELSE [body |-> "torn", turns |-> {}, len |-> file.len]

(* json.loads of the content: neither an empty nor a torn file parses.     *)
Parses(file) == file.body = "whole"

At(c, s) == stage[c] = s

Goto(c, s) == stage' = [stage EXCEPT ![c] = s]

(* The turn is over: the team and the list were its local variables.       *)
EndTurn(c, s) ==
  /\ Goto(c, s)
  /\ speaker' = [speaker EXCEPT ![c] = "task"]
  /\ mem' = [mem EXCEPT ![c] = {}]

SavingState(c) == stage[c] \in {"save_state", "write_state"}

(* From the opening of the state file to the writing of the history file.  *)
Saving(c) ==
  stage[c] \in {"save_state", "write_state", "open_history", "write_history"}

(* A turn that stops while it saves leaves its two files as they are.      *)
CutShort(c) ==
  /\ broken' = IF SavingState(c) THEN broken \cup {ThisTurn(c)} ELSE broken
  /\ disturbed' = IF Saving(c) THEN disturbed \cup {ThisTurn(c)} ELSE disturbed

-----------------------------------------------------------------------------
(* A turn: from the client's message to the history it will extend.        *)

Connect(c) ==
  /\ At(c, "closed")
  /\ Goto(c, "receive")
  /\ UNCHANGED <<speaker, turn, mem, stateFile, historyFile, broken, disturbed>>

(* receive_json under the lock returns a valid TextMessage.                *)
Receive(c) ==
  /\ At(c, "receive")
  /\ turn[c] < MaxTurns
  /\ turn' = [turn EXCEPT ![c] = @ + 1]
  /\ Goto(c, "build")
  /\ UNCHANGED <<speaker, mem, stateFile, historyFile, broken, disturbed>>

(* The client left, or its message is empty or no TextMessage: the outer   *)
(* handlers end the connection.                                            *)
Leave(c) ==
  /\ At(c, "receive")
  /\ Goto(c, "closed")
  /\ UNCHANGED <<speaker, turn, mem, stateFile, historyFile, broken, disturbed>>

BuildTeam(c) ==
  /\ At(c, "build")
  /\ \/ Goto(c, "exists")
     \/ "team" \in Faults /\ Goto(c, "error")
  /\ UNCHANGED <<speaker, turn, mem, stateFile, historyFile, broken, disturbed>>

StartStream(c) ==
  /\ Goto(c, "stream")
  /\ speaker' = [speaker EXCEPT ![c] = "task"]

(* get_timelog_history: os.path.exists of the history file.                *)
CheckHistory(c) ==
  /\ At(c, "exists")
  /\ IF historyFile.body = "absent"
       THEN StartStream(c) /\ mem' = [mem EXCEPT ![c] = {}]
       ELSE Goto(c, "read") /\ UNCHANGED <<speaker, mem>>
  /\ UNCHANGED <<turn, stateFile, historyFile, broken, disturbed>>

(* Mutant of ReadHistory: a file that does not parse is an empty history.  *)
ReadHistoryTolerant(c) ==
  /\ At(c, "read")
  /\ StartStream(c)
  /\ mem' = [mem EXCEPT ![c] = {}]
  /\ UNCHANGED <<turn, stateFile, historyFile, broken, disturbed>>

(* get_timelog_history: the state file is what it opens and parses, a JSON *)
(* object, which the caller replaces by the empty list.                    *)
ReadHistory(c) ==
  /\ At(c, "read")
  /\ IF Parses(stateFile)
       THEN StartStream(c) /\ mem' = [mem EXCEPT ![c] = {}]
       ELSE Goto(c, "error") /\ UNCHANGED <<speaker, mem>>
  /\ UNCHANGED <<turn, stateFile, historyFile, broken, disturbed>>

-----------------------------------------------------------------------------
(* The team's stream: the task, then round robin over the four agents,     *)
(* until a message mentions DONE.                                          *)

(* Mutant of NextSpeaker: the user proxy is left out of the round.         *)
NextSpeakerNoUser(s) == CASE s = "task" -> "github"
                          [] s = "github" -> "calendar"
                          [] s = "calendar" -> "timelog"
                          [] s = "timelog" -> "github"
                          [] s = "user" -> "github"

NextSpeaker(s) == CASE s = "task" -> "github"
                    [] s = "github" -> "calendar"
                    [] s = "calendar" -> "timelog"
                    [] s = "timelog" -> "user"
                    [] s = "user" -> "github"

(* A message is sent to the client and appended to the list.               *)
Said(c, done) ==
  /\ mem' = [mem EXCEPT ![c] = @ \cup {ThisTurn(c)}]
  /\ speaker' = [speaker EXCEPT ![c] = IF done THEN "task" ELSE NextSpeaker(@)]
  /\ Goto(c, IF done THEN "open_state" ELSE "stream")

AgentSpeaks(c) ==
  /\ At(c, "stream") /\ speaker[c] # "user"
  /\ \E done \in BOOLEAN : Said(c, done)
  /\ UNCHANGED <<turn, stateFile, historyFile, broken, disturbed>>

(* The user proxy's UserInputRequestedEvent is sent, but not appended.     *)
RequestInput(c) ==
  /\ At(c, "stream") /\ speaker[c] = "user"
  /\ Goto(c, "ask")
  /\ UNCHANGED <<speaker, turn, mem, stateFile, historyFile, broken, disturbed>>

(* _user_input: the client's reply is the user agent's message.            *)
UserReplies(c) ==
  /\ At(c, "ask")
  /\ \E done \in BOOLEAN : Said(c, done)
  /\ UNCHANGED <<turn, stateFile, historyFile, broken, disturbed>>

(* The stream raises: an agent or a send failed, or the reply was unusable.*)
StreamFails(c) ==
  /\ stage[c] \in {"stream", "ask"}
  /\ "team" \in Faults
  /\ EndTurn(c, "error")
  /\ UNCHANGED <<turn, stateFile, historyFile, broken, disturbed>>

-----------------------------------------------------------------------------
(* Saving.                                                                 *)

(* The file is emptied before the state to write is asked for.             *)
OpenState(c) ==
  /\ At(c, "open_state")
  /\ stateFile' = Opened(stateFile)
  /\ broken' = IF \E d \in Conn \ {c} : SavingState(d)
                 THEN broken \cup {ThisTurn(c)} ELSE broken
  /\ LET others == {d \in Conn \ {c} : Saving(d)} IN
       disturbed' = disturbed \cup
         IF others = {} THEN {} ELSE {ThisTurn(d) : d \in others \cup {c}}
  /\ Goto(c, "save_state")
  /\ UNCHANGED <<speaker, turn, mem, historyFile>>

(* Mutant of SaveState: the write is forgotten.                            *)
SaveStateUnwritten(c) ==
  /\ At(c, "save_state")
  /\ Goto(c, "open_history")
  /\ UNCHANGED <<speaker, turn, mem, stateFile, historyFile, broken, disturbed>>

(* state = await team.save_state()                                         *)
SaveState(c) ==
  /\ At(c, "save_state")
  /\ Goto(c, "write_state")
  /\ UNCHANGED <<speaker, turn, mem, stateFile, historyFile, broken, disturbed>>

WriteState(c) ==
  /\ At(c, "write_state")
  /\ \E n \in 1..MaxLen : stateFile' = Written(stateFile, {ThisTurn(c)}, n)
  /\ Goto(c, "open_history")
  /\ UNCHANGED <<speaker, turn, mem, historyFile, broken, disturbed>>

OpenHistory(c) ==
  /\ At(c, "open_history")
  /\ historyFile' = Opened(historyFile)
  /\ Goto(c, "write_history")
  /\ UNCHANGED <<speaker, turn, mem, stateFile, broken, disturbed>>

(* Mutant of WriteHistory: the coroutine of the write is not awaited.      *)
WriteHistoryUnawaited(c) ==
  /\ At(c, "write_history")
  /\ EndTurn(c, "receive")
  /\ UNCHANGED <<turn, stateFile, historyFile, broken, disturbed>>

WriteHistory(c) ==
  /\ At(c, "write_history")
  /\ \E n \in 1..MaxLen : historyFile' = Written(historyFile, mem[c], n)
  /\ EndTurn(c, "receive")
  /\ UNCHANGED <<turn, stateFile, broken, disturbed>>

(* save_state or a write raises: what was emptied stays empty.             *)
SaveFails(c) ==
  /\ stage[c] \in {"save_state", "write_state", "write_history"}
  /\ "save" \in Faults
  /\ CutShort(c)
  /\ EndTurn(c, "error")
  /\ UNCHANGED <<turn, stateFile, historyFile>>

(* except Exception: both messages reach the client and the loop goes on,  *)
(* or a send raises as well and the outer handlers end the connection.     *)
ReportError(c) ==
  /\ At(c, "error")
  /\ Goto(c, "receive") \/ Goto(c, "closed")
  /\ UNCHANGED <<speaker, turn, mem, stateFile, historyFile, broken, disturbed>>

Kill(c) ==
  /\ "kill" \in Faults
  /\ stage[c] # "closed"
  /\ CutShort(c)
  /\ EndTurn(c, "closed")
  /\ UNCHANGED <<turn, stateFile, historyFile>>

-----------------------------------------------------------------------------
Init ==
  /\ stage = [c \in Conn |-> "closed"]
  /\ speaker = [c \in Conn |-> "task"]
  /\ turn = [c \in Conn |-> 0]
  /\ mem = [c \in Conn |-> {}]
  /\ stateFile = Absent
  /\ historyFile = Absent
  /\ broken = {}
  /\ disturbed = {}

(* What the server does on its own, without the client.                    *)
ServerStep(c) ==
  \/ BuildTeam(c) \/ CheckHistory(c) \/ ReadHistory(c)
  \/ AgentSpeaks(c) \/ RequestInput(c)
  \/ OpenState(c) \/ SaveState(c) \/ WriteState(c)
  \/ OpenHistory(c) \/ WriteHistory(c)
  \/ ReportError(c)

ClientStep(c) == Connect(c) \/ Receive(c) \/ Leave(c) \/ UserReplies(c)

FaultStep(c) == StreamFails(c) \/ SaveFails(c) \/ Kill(c)

Next == \E c \in Conn : ServerStep(c) \/ ClientStep(c) \/ FaultStep(c)

Spec == Init /\ [][Next]_vars

(* The event loop runs every coroutine that is not waiting for its client. *)
FairSpec == Spec /\ \A c \in Conn : WF_vars(ServerStep(c))

-----------------------------------------------------------------------------
(* Properties.                                                             *)

(* The two files belong together.  They are written one after the other,   *)
(* with no lock and no rename; still, when nobody is saving, a state file  *)
(* that can be parsed has a readable history file of the same turn beside  *)
(* it, unless that very turn was cut short while it saved or overlapped    *)
(* another.  So one undisturbed turn repairs what earlier ones left.       *)
FilesAgree ==
  (\A c \in Conn : ~ Saving(c)) /\ Parses(stateFile)
    => \/ stateFile.turns \cap disturbed # {}
       \/ Parses(historyFile) /\ historyFile.turns = stateFile.turns

(* The state file can be parsed whenever nobody is saving it, unless a     *)
(* save was cut short or two of them overlapped at some time.              *)
StateParsesAtRest ==
  broken = {} /\ (\A c \in Conn : ~ SavingState(c))
    => Parses(stateFile) \/ stateFile = Absent

(* The state file is beyond repair: it does not parse, a history file      *)
(* makes every turn read it first, and no connection is between that read  *)
(* and its own write of the file.                                          *)
Poisoned ==
  /\ ~ Parses(stateFile)
  /\ historyFile.body # "absent"
  /\ \A c \in Conn : stage[c] \in {"closed", "receive", "build", "exists", "read",
                                   "open_history", "write_history", "error"}

(* Once that has happened no sequence of turns, reconnections or restarts  *)
(* ends it: every later turn fails before it can write the file again.     *)
PoisonedForever == [][Poisoned => Poisoned']_vars

(* A turn never hangs in the server: it ends, in an answer or an error, or *)
(* it comes to wait for the client.                                        *)
Waiting(c) == stage[c] \in {"receive", "ask", "closed"}
TurnsEnd == \A c \in Conn : ~ Waiting(c) ~> Waiting(c)

(* get_timelog_history, "Get chat history from file.": a turn that starts  *)
(* after others were saved starts from the messages of the history file.   *)
HistoryIsLoaded ==
  [][\A c \in Conn :
       stage[c] = "read" /\ stage'[c] = "stream" /\ Parses(historyFile)
         => mem'[c] = historyFile.turns]_vars
=============================================================================
