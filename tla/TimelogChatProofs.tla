--------------------------- MODULE TimelogChatProofs ---------------------------
(***************************************************************************)
(* What holds of the chat socket and its two files for any number of       *)
(* connections, turns and file lengths and any set of faults.              *)
(***************************************************************************)
EXTENDS TimelogChat, TLAPS

(* A written file is whole or torn, never absent or empty, and whole when  *)
(* it was empty before.                                                    *)
LEMMA WrittenFile ==
  ASSUME NEW file \in File, NEW ts \in SUBSET Turn, NEW n \in 1..MaxLen
  PROVE  /\ Written(file, ts, n) \in File
         /\ Written(file, ts, n).body \in {"whole", "torn"}
         /\ Parses(Written(file, ts, n)) => Written(file, ts, n).turns = ts
         /\ file = Emptied => Parses(Written(file, ts, n))
  BY ConstantsAssumption DEF Written, File, Parses, Emptied

LEMMA FileConstants ==
  /\ Emptied \in File /\ Absent \in File
  /\ ~ Parses(Emptied) /\ ~ Parses(Absent)
  /\ Emptied.body = "empty" /\ Absent.body = "absent"
  BY ConstantsAssumption DEF Emptied, Absent, File, Parses

(* The steps that touch no file and save nothing.                          *)
Talk(c) ==
  \/ Connect(c) \/ Receive(c) \/ Leave(c) \/ BuildTeam(c) \/ CheckHistory(c)
  \/ ReadHistory(c) \/ AgentSpeaks(c) \/ RequestInput(c) \/ UserReplies(c)
  \/ StreamFails(c) \/ SaveState(c) \/ ReportError(c)

LEMMA NextCases ==
  ASSUME [Next]_vars
  PROVE  \/ UNCHANGED vars
         \/ \E c \in Conn : \/ Talk(c) \/ SaveFails(c) \/ Kill(c)
                            \/ OpenState(c) \/ WriteState(c)
                            \/ OpenHistory(c) \/ WriteHistory(c)
  BY DEF Next, ServerStep, ClientStep, FaultStep, Talk

LEMMA TypeStep == TypeOK /\ [Next]_vars => TypeOK'
<1> SUFFICES ASSUME TypeOK, [Next]_vars PROVE TypeOK'
  OBVIOUS
<1> USE DEF TypeOK
<1>0. \A c \in Conn : ThisTurn(c) \in Turn
  BY DEF ThisTurn, Turn
<1>1. CASE UNCHANGED vars
  BY <1>1 DEF vars
<1>2. ASSUME NEW c \in Conn, Talk(c)
      PROVE  TypeOK'
  <2>1. CASE Connect(c) \/ Leave(c) \/ BuildTeam(c) \/ RequestInput(c)
             \/ StreamFails(c) \/ SaveState(c) \/ ReportError(c)
    BY <2>1 DEF Connect, Leave, BuildTeam, RequestInput, StreamFails, SaveState,
                ReportError, Goto, EndTurn, Stage, Speaker
  <2>2. CASE Receive(c)
    BY <2>2, ConstantsAssumption DEF Receive, Goto, Stage
  <2>3. CASE CheckHistory(c) \/ ReadHistory(c)
    BY <2>3 DEF CheckHistory, ReadHistory, StartStream, Goto, Stage, Speaker
  <2>4. CASE AgentSpeaks(c) \/ UserReplies(c)
    <3>1. NextSpeaker(speaker[c]) \in Speaker
      BY DEF NextSpeaker, Speaker
    <3>2. \E done \in BOOLEAN : Said(c, done)
      BY <2>4 DEF AgentSpeaks, UserReplies
    <3>3. /\ mem' \in [Conn -> SUBSET Turn]
          /\ speaker' \in [Conn -> Speaker]
          /\ stage' \in [Conn -> Stage]
      <4> PICK done \in BOOLEAN : Said(c, done)
        BY <3>2
      <4>1. "task" \in Speaker
        BY DEF Speaker
      <4> QED
        BY <1>0, <3>1, <4>1 DEF Said, Goto, Stage
    <3> QED
      BY <2>4, <3>3 DEF AgentSpeaks, UserReplies
  <2> QED
    BY <1>2, <2>1, <2>2, <2>3, <2>4 DEF Talk
<1>3. ASSUME NEW c \in Conn, SaveFails(c) \/ Kill(c) \/ OpenState(c) \/ OpenHistory(c)
      PROVE  TypeOK'
  BY <1>0, <1>3, FileConstants
     DEF SaveFails, Kill, CutShort, OpenState, OpenHistory, Opened, Goto, EndTurn,
         Stage, Speaker
<1>4. ASSUME NEW c \in Conn, WriteState(c) \/ WriteHistory(c)
      PROVE  TypeOK'
  BY <1>0, <1>4, WrittenFile
     DEF WriteState, WriteHistory, Goto, EndTurn, Stage, Speaker
<1> QED
  BY <1>1, <1>2, <1>3, <1>4, NextCases

LEMMA TypeInit == Init => TypeOK
  BY FileConstants, ConstantsAssumption DEF Init, TypeOK, Stage, Speaker

(* Every variable keeps its type.                                          *)
THEOREM TypeCorrect == Spec => []TypeOK
  BY TypeInit, TypeStep, PTL DEF Spec

-----------------------------------------------------------------------------
(* The two files.                                                          *)

(* A list in use holds the messages of its own turn only, and one about to *)
(* be saved is not empty.                                                  *)
MemIsOwn(c) ==
  /\ stage[c] \in {"stream", "ask"} => mem[c] \subseteq {ThisTurn(c)}
  /\ stage[c] = "open_state" \/ Saving(c) => mem[c] = {ThisTurn(c)}

Undisturbed(c) == Saving(c) /\ ThisTurn(c) \notin disturbed

(* An undisturbed turn saves alone, and the files are as it left them.     *)
SavesAlone(c) ==
  Undisturbed(c) =>
    /\ \A d \in Conn : Saving(d) => d = c
    /\ SavingState(c) => stateFile = Emptied
    /\ ~ SavingState(c) => Parses(stateFile) /\ stateFile.turns = {ThisTurn(c)}
    /\ stage[c] = "write_history" => historyFile = Emptied

(* The state of an undisturbed turn has its history beside it, or is about *)
(* to have it.                                                             *)
HistoryIsBeside ==
  /\ \A c \in Conn : ~ Saving(c)
  /\ Parses(historyFile) /\ historyFile.turns = stateFile.turns

HistoryFollows ==
  Parses(stateFile) /\ stateFile.turns \cap disturbed = {}
    => HistoryIsBeside \/ \E c \in Conn : Undisturbed(c) /\ ~ SavingState(c)

FilesInv ==
  /\ TypeOK
  /\ \A c \in Conn : MemIsOwn(c) /\ SavesAlone(c)
  /\ HistoryFollows

LEMMA FilesInvStep == FilesInv /\ [Next]_vars => FilesInv'
<1> SUFFICES ASSUME FilesInv, [Next]_vars PROVE FilesInv'
  OBVIOUS
<1> USE DEF FilesInv
<1>0. TypeOK /\ TypeOK'
  BY TypeStep
<1>a. \A c \in Conn : ThisTurn(c) \in Turn
  BY <1>0 DEF ThisTurn, Turn, TypeOK
<1>b. \A c, d \in Conn : ThisTurn(c) = ThisTurn(d) => c = d
  BY DEF ThisTurn
<1>1. CASE UNCHANGED vars
  BY <1>0, <1>1 DEF vars, MemIsOwn, SavesAlone, Undisturbed, Saving, SavingState,
                    ThisTurn, HistoryFollows, HistoryIsBeside
<1>2. ASSUME NEW c \in Conn, Talk(c)
      PROVE  FilesInv'
  <2>1. UNCHANGED <<stateFile, historyFile, disturbed>>
    BY <1>2 DEF Talk, Connect, Receive, Leave, BuildTeam, CheckHistory,
       ReadHistory, AgentSpeaks, RequestInput, UserReplies, StreamFails,
       SaveState, ReportError
  <2>2. \A d \in Conn \ {c} : /\ stage'[d] = stage[d]
                              /\ mem'[d] = mem[d] /\ turn'[d] = turn[d]
    BY <1>0, <1>2 DEF Talk, Connect, Receive, Leave, BuildTeam, CheckHistory,
       ReadHistory, AgentSpeaks, RequestInput, UserReplies, StreamFails,
       SaveState, ReportError, Goto, EndTurn, StartStream, Said, TypeOK
  <2>3. MemIsOwn(c)'
    <3>1. CASE Connect(c) \/ Receive(c) \/ Leave(c) \/ BuildTeam(c)
               \/ StreamFails(c) \/ ReportError(c)
      BY <1>0, <3>1 DEF Connect, Receive, Leave, BuildTeam, StreamFails,
                        ReportError, Goto, EndTurn, MemIsOwn, Saving, TypeOK
    <3>2. CASE CheckHistory(c) \/ ReadHistory(c)
      BY <1>0, <3>2 DEF CheckHistory, ReadHistory, StartStream, Goto, MemIsOwn,
                        Saving, TypeOK
    <3>3. CASE AgentSpeaks(c) \/ UserReplies(c)
      BY <1>0, <3>3 DEF AgentSpeaks, UserReplies, Said, At, Goto, MemIsOwn,
                        Saving, ThisTurn, TypeOK
    <3>4. CASE RequestInput(c) \/ SaveState(c)
      BY <1>0, <3>4 DEF RequestInput, SaveState, At, Goto, MemIsOwn, Saving,
                        ThisTurn, TypeOK
    <3> QED
      BY <1>2, <3>1, <3>2, <3>3, <3>4 DEF Talk
  <2>4. /\ Saving(c)' <=> Saving(c)
        /\ SavingState(c)' <=> SavingState(c)
        /\ stage'[c] # "write_history"
        /\ Saving(c) => turn'[c] = turn[c]
    BY <1>0, <1>2 DEF Talk, Connect, Receive, Leave, BuildTeam, CheckHistory,
       ReadHistory, AgentSpeaks, RequestInput, UserReplies, StreamFails,
       SaveState, ReportError, At, Goto, EndTurn, StartStream, Said, TypeOK,
       Saving, SavingState
  <2>5. \A d \in Conn : /\ Saving(d)' <=> Saving(d)
                        /\ SavingState(d)' <=> SavingState(d)
                        /\ Saving(d) => ThisTurn(d)' = ThisTurn(d)
                        /\ Undisturbed(d)' <=> Undisturbed(d)
    BY <2>1, <2>2, <2>4 DEF Saving, SavingState, ThisTurn, Undisturbed
  <2>6. \A d \in Conn : MemIsOwn(d)'
    BY <2>2, <2>3 DEF MemIsOwn, Saving, ThisTurn
  <2>7. \A d \in Conn : SavesAlone(d)'
    BY <2>1, <2>2, <2>4, <2>5 DEF SavesAlone, Undisturbed
  <2>8. HistoryFollows'
    BY <2>1, <2>5 DEF HistoryFollows, HistoryIsBeside
  <2> QED
    BY <1>0, <2>6, <2>7, <2>8
<1>3. ASSUME NEW c \in Conn, SaveFails(c) \/ Kill(c)
      PROVE  FilesInv'
  <2>1. /\ UNCHANGED <<stateFile, historyFile, turn>>
        /\ stage'[c] \in {"error", "closed"}
        /\ \A d \in Conn \ {c} : stage'[d] = stage[d] /\ mem'[d] = mem[d]
        /\ disturbed' = IF Saving(c) THEN disturbed \cup {ThisTurn(c)} ELSE disturbed
    BY <1>0, <1>3 DEF SaveFails, Kill, CutShort, Goto, EndTurn, TypeOK
  <2>2. /\ ~ Saving(c)'
        /\ \A d \in Conn \ {c} : /\ Saving(d)' <=> Saving(d)
                                 /\ SavingState(d)' <=> SavingState(d)
    BY <2>1 DEF Saving, SavingState
  <2>3. \A d \in Conn : ThisTurn(d)' = ThisTurn(d)
    BY <2>1 DEF ThisTurn
  <2>4. \A d \in Conn : MemIsOwn(d)'
    BY <2>1, <2>2, <2>3 DEF MemIsOwn
  <2>5. \A d \in Conn : Undisturbed(d)' => d # c /\ Undisturbed(d)
    BY <2>1, <2>2, <2>3 DEF Undisturbed
  <2>6. \A d \in Conn : SavesAlone(d)'
    BY <2>1, <2>2, <2>3, <2>5 DEF SavesAlone
  <2>7. HistoryFollows'
    <3>1. CASE Saving(c)
      <4>1. \A d \in Conn : Undisturbed(d) => d = c
        BY <3>1 DEF SavesAlone
      <4>2. Undisturbed(c) /\ ~ SavingState(c) => stateFile.turns = {ThisTurn(c)}
        BY DEF SavesAlone
      <4> QED
        BY <2>1, <3>1, <4>1, <4>2 DEF HistoryFollows, HistoryIsBeside
    <3>2. CASE ~ Saving(c)
      <4>1. \A d \in Conn : Undisturbed(d) => Undisturbed(d)' /\ d # c
        BY <2>1, <2>2, <2>3, <3>2 DEF Undisturbed
      <4>2. \A d \in Conn : Undisturbed(d) /\ ~ SavingState(d)
                              => Undisturbed(d)' /\ ~ SavingState(d)'
        BY <2>2, <4>1
      <4>3. HistoryIsBeside => HistoryIsBeside'
        BY <2>1, <2>2 DEF HistoryIsBeside
      <4>4. stateFile' = stateFile /\ disturbed' = disturbed
        BY <2>1, <3>2
      <4> QED
        BY <4>2, <4>3, <4>4 DEF HistoryFollows
    <3> QED
      BY <3>1, <3>2
  <2> QED
    BY <1>0, <2>4, <2>6, <2>7
<1>4. ASSUME NEW c \in Conn, OpenState(c)
      PROVE  FilesInv'
  <2>1. /\ UNCHANGED <<historyFile, turn, mem>>
        /\ stateFile' = Emptied
        /\ stage[c] = "open_state" /\ stage'[c] = "save_state"
        /\ \A d \in Conn \ {c} : stage'[d] = stage[d]
    BY <1>0, <1>4 DEF OpenState, Opened, At, Goto, TypeOK
  <2>2. /\ Saving(c)' /\ SavingState(c)' /\ ~ Saving(c)
        /\ \A d \in Conn \ {c} : /\ Saving(d)' <=> Saving(d)
                                 /\ SavingState(d)' <=> SavingState(d)
        /\ \A d \in Conn : ThisTurn(d)' = ThisTurn(d)
    BY <2>1 DEF Saving, SavingState, ThisTurn
  <2>3. \A d \in Conn : MemIsOwn(d)'
    BY <2>1, <2>2 DEF MemIsOwn
  <2>4. \A d \in Conn \ {c} : Saving(d) => ThisTurn(d) \in disturbed'
                                         /\ ThisTurn(c) \in disturbed'
    BY <1>4 DEF OpenState
  <2>5. \A d \in Conn : Undisturbed(d)' =>
          d = c /\ \A e \in Conn : Saving(e)' => e = c
    BY <2>2, <2>4 DEF Undisturbed
  <2>6. \A d \in Conn : SavesAlone(d)'
    BY <2>1, <2>2, <2>5 DEF SavesAlone
  <2>7. HistoryFollows'
    BY <2>1, FileConstants DEF HistoryFollows
  <2> QED
    BY <1>0, <2>3, <2>6, <2>7
<1>5. ASSUME NEW c \in Conn, WriteState(c)
      PROVE  FilesInv'
  <2>1. /\ UNCHANGED <<historyFile, turn, mem, disturbed>>
        /\ stage[c] = "write_state" /\ stage'[c] = "open_history"
        /\ \A d \in Conn \ {c} : stage'[d] = stage[d]
    BY <1>0, <1>5 DEF WriteState, At, Goto, TypeOK
  <2>2. /\ Saving(c) /\ SavingState(c) /\ Saving(c)' /\ ~ SavingState(c)'
        /\ \A d \in Conn \ {c} : /\ Saving(d)' <=> Saving(d)
                                 /\ SavingState(d)' <=> SavingState(d)
        /\ \A d \in Conn : ThisTurn(d)' = ThisTurn(d)
    BY <2>1 DEF Saving, SavingState, ThisTurn
  <2>3. \A d \in Conn : MemIsOwn(d)'
    BY <2>1, <2>2 DEF MemIsOwn
  <2>4. \A d \in Conn : Undisturbed(d)' <=> Undisturbed(d)
    BY <2>1, <2>2 DEF Undisturbed
  <2>5. \A d \in Conn : Undisturbed(d) => d = c
    BY <2>2 DEF SavesAlone
  <2>6. /\ Parses(stateFile') => stateFile'.turns = {ThisTurn(c)}
        /\ Undisturbed(c) => Parses(stateFile')
    <3>1. PICK n \in 1..MaxLen : stateFile' = Written(stateFile, {ThisTurn(c)}, n)
      BY <1>5 DEF WriteState
    <3>2. stateFile \in File /\ {ThisTurn(c)} \in SUBSET Turn
      BY <1>0, <1>a DEF TypeOK
    <3>3. Undisturbed(c) => stateFile = Emptied
      BY <2>2 DEF SavesAlone
    <3> QED
      BY <3>1, <3>2, <3>3, WrittenFile
  <2>7. SavesAlone(c)'
    BY <2>1, <2>2, <2>4, <2>6 DEF SavesAlone, Parses
  <2>8. \A d \in Conn : SavesAlone(d)'
    BY <2>4, <2>5, <2>7 DEF SavesAlone
  <2>9. HistoryFollows'
    BY <2>1, <2>2, <2>4, <2>6 DEF HistoryFollows, Undisturbed, Parses
  <2> QED
    BY <1>0, <2>3, <2>8, <2>9
<1>6. ASSUME NEW c \in Conn, OpenHistory(c)
      PROVE  FilesInv'
  <2>1. /\ UNCHANGED <<stateFile, turn, mem, disturbed>>
        /\ historyFile' = Emptied
        /\ stage[c] = "open_history" /\ stage'[c] = "write_history"
        /\ \A d \in Conn \ {c} : stage'[d] = stage[d]
    BY <1>0, <1>6 DEF OpenHistory, Opened, At, Goto, TypeOK
  <2>2. /\ Saving(c) /\ ~ SavingState(c)
        /\ \A d \in Conn : /\ Saving(d)' <=> Saving(d)
                           /\ SavingState(d)' <=> SavingState(d)
                           /\ ThisTurn(d)' = ThisTurn(d)
    BY <2>1 DEF Saving, SavingState, ThisTurn
  <2>3. \A d \in Conn : MemIsOwn(d)'
    BY <2>1, <2>2 DEF MemIsOwn
  <2>4. \A d \in Conn : Undisturbed(d)' <=> Undisturbed(d)
    BY <2>1, <2>2 DEF Undisturbed
  <2>5. \A d \in Conn : SavesAlone(d)'
    BY <2>1, <2>2, <2>4 DEF SavesAlone
  <2>6. HistoryFollows'
    BY <2>1, <2>2, <2>4 DEF HistoryFollows, HistoryIsBeside
  <2> QED
    BY <1>0, <2>3, <2>5, <2>6
<1>7. ASSUME NEW c \in Conn, WriteHistory(c)
      PROVE  FilesInv'
  <2>1. /\ UNCHANGED <<stateFile, turn, disturbed>>
        /\ stage[c] = "write_history" /\ stage'[c] = "receive"
        /\ \A d \in Conn \ {c} : stage'[d] = stage[d] /\ mem'[d] = mem[d]
    BY <1>0, <1>7 DEF WriteHistory, At, Goto, EndTurn, TypeOK
  <2>2. /\ Saving(c) /\ ~ SavingState(c) /\ ~ Saving(c)'
        /\ \A d \in Conn \ {c} : /\ Saving(d)' <=> Saving(d)
                                 /\ SavingState(d)' <=> SavingState(d)
        /\ \A d \in Conn : ThisTurn(d)' = ThisTurn(d)
    BY <2>1 DEF Saving, SavingState, ThisTurn
  <2>3. \A d \in Conn : MemIsOwn(d)'
    BY <2>1, <2>2 DEF MemIsOwn
  <2>4. \A d \in Conn : Undisturbed(d) => d = c
    BY <2>2 DEF SavesAlone
  <2>5. \A d \in Conn : ~ Undisturbed(d)'
    BY <2>1, <2>2, <2>4 DEF Undisturbed
  <2>6. Undisturbed(c) =>
          /\ Parses(historyFile')
          /\ historyFile'.turns = {ThisTurn(c)}
          /\ stateFile.turns = {ThisTurn(c)}
          /\ \A d \in Conn : ~ Saving(d)'
    <3>1. mem[c] = {ThisTurn(c)} /\ mem[c] \in SUBSET Turn
      BY <1>0, <2>2 DEF MemIsOwn, TypeOK
    <3>2. Undisturbed(c) => historyFile = Emptied
      BY <2>1 DEF SavesAlone
    <3>3. Undisturbed(c) => Parses(historyFile') /\ historyFile'.turns = mem[c]
      BY <1>0, <1>7, <3>1, <3>2, WrittenFile DEF WriteHistory, TypeOK
    <3> QED
      BY <2>2, <3>1, <3>3 DEF SavesAlone
  <2>7. HistoryFollows'
    <3>1. ~ HistoryIsBeside
      BY <2>2 DEF HistoryIsBeside
    <3>2. Parses(stateFile) /\ stateFile.turns \cap disturbed = {} => Undisturbed(c)
      BY <2>4, <3>1 DEF HistoryFollows
    <3>3. Undisturbed(c) => HistoryIsBeside'
      BY <2>1, <2>6 DEF HistoryIsBeside, Parses
    <3> QED
      BY <2>1, <3>2, <3>3 DEF HistoryFollows, Parses
  <2> QED
    BY <1>0, <2>3, <2>5, <2>7 DEF SavesAlone
<1> QED
  BY <1>1, <1>2, <1>3, <1>4, <1>5, <1>6, <1>7, NextCases

(* At rest a readable state file has the readable history of its own turn  *)
(* beside it, unless that turn was cut short or overlapped while it saved. *)
THEOREM FilesBelongTogether == Spec => []FilesAgree
<1>1. Init => FilesInv
  BY TypeInit, FileConstants DEF Init, FilesInv, MemIsOwn, SavesAlone,
     Undisturbed, Saving, HistoryFollows
<1>2. FilesInv => FilesAgree
  BY DEF FilesInv, HistoryFollows, HistoryIsBeside, Undisturbed, FilesAgree
<1> QED
  BY <1>1, <1>2, FilesInvStep, PTL DEF Spec

-----------------------------------------------------------------------------
(* The readability of the state file.                                      *)

(* As long as no save was cut short or overlapped, at most one connection  *)
(* is saving, the file it opened is still empty, and without one the file  *)
(* is as a finished save left it.                                          *)
SaverIsAlone ==
  broken = {} =>
    /\ \A c, d \in Conn : SavingState(c) /\ SavingState(d) => c = d
    /\ \A c \in Conn : SavingState(c) => stateFile = Emptied

SaveInv == TypeOK /\ SaverIsAlone /\ StateParsesAtRest

LEMMA SaveInvStep == SaveInv /\ [Next]_vars => SaveInv'
<1> SUFFICES ASSUME SaveInv, [Next]_vars PROVE SaveInv'
  OBVIOUS
<1> USE DEF SaveInv
<1>0. TypeOK /\ TypeOK'
  BY TypeStep
<1>1. ASSUME UNCHANGED <<stateFile, broken>>,
             \A c \in Conn : SavingState(c)' <=> SavingState(c)
      PROVE  SaveInv'
  BY <1>0, <1>1 DEF SaverIsAlone, StateParsesAtRest
<1>2. CASE UNCHANGED vars
  BY <1>1, <1>2 DEF vars, SavingState
<1>3. ASSUME NEW c \in Conn, Talk(c)
      PROVE  SaveInv'
  <2>1. UNCHANGED <<stateFile, broken>>
    BY <1>3 DEF Talk, Connect, Receive, Leave, BuildTeam, CheckHistory,
       ReadHistory, AgentSpeaks, RequestInput, UserReplies, StreamFails,
       SaveState, ReportError
  <2>2. \A d \in Conn : SavingState(d)' <=> SavingState(d)
    BY <1>0, <1>3 DEF Talk, Connect, Receive, Leave, BuildTeam, CheckHistory,
       ReadHistory, AgentSpeaks, RequestInput, UserReplies, StreamFails,
       SaveState, ReportError, At, Goto, EndTurn, StartStream, Said, TypeOK, SavingState
  <2> QED
    BY <1>1, <2>1, <2>2
<1>4. ASSUME NEW c \in Conn, SaveFails(c) \/ Kill(c)
      PROVE  SaveInv'
  <2>1. CASE SavingState(c)
    BY <1>0, <1>4, <2>1 DEF SaveFails, Kill, CutShort, SaverIsAlone, StateParsesAtRest
  <2>2. CASE ~ SavingState(c)
    <3>1. \A d \in Conn : SavingState(d)' <=> SavingState(d)
      BY <1>0, <1>4, <2>2 DEF SaveFails, Kill, CutShort, Goto, EndTurn, TypeOK, SavingState
    <3> QED
      BY <1>1, <1>4, <2>2, <3>1 DEF SaveFails, Kill, CutShort
  <2> QED
    BY <2>1, <2>2
<1>5. ASSUME NEW c \in Conn, OpenState(c)
      PROVE  SaveInv'
  <2>1. /\ stateFile' = Emptied
        /\ SavingState(c)'
        /\ \A d \in Conn \ {c} : SavingState(d)' <=> SavingState(d)
        /\ broken' = {} => broken = {} /\ \A d \in Conn \ {c} : ~ SavingState(d)
    BY <1>0, <1>5 DEF OpenState, Opened, At, Goto, TypeOK, SavingState
  <2> QED
    BY <1>0, <2>1 DEF SaverIsAlone, StateParsesAtRest
<1>6. ASSUME NEW c \in Conn, WriteState(c)
      PROVE  SaveInv'
  <2>1. /\ SavingState(c) /\ ~ SavingState(c)'
        /\ \A d \in Conn \ {c} : SavingState(d)' <=> SavingState(d)
        /\ broken' = broken
    BY <1>0, <1>6 DEF WriteState, At, Goto, TypeOK, SavingState
  <2>2. broken = {} => Parses(stateFile')
    BY <1>0, <1>6, <2>1, WrittenFile
       DEF WriteState, SaverIsAlone, TypeOK, ThisTurn, Turn
  <2> QED
    BY <1>0, <2>1, <2>2 DEF SaverIsAlone, StateParsesAtRest
<1>7. ASSUME NEW c \in Conn, OpenHistory(c) \/ WriteHistory(c)
      PROVE  SaveInv'
  <2>1. \A d \in Conn : SavingState(d)' <=> SavingState(d)
    BY <1>0, <1>7 DEF OpenHistory, WriteHistory, At, Goto, EndTurn, TypeOK,
       SavingState
  <2> QED
    BY <1>1, <1>7, <2>1 DEF OpenHistory, WriteHistory
<1> QED
  BY <1>2, <1>3, <1>4, <1>5, <1>6, <1>7, NextCases

(* The state file is readable at rest unless a save was cut short or       *)
(* overlapped another one: nothing else in the protocol can damage it.     *)
THEOREM StateReadableAtRest == Spec => []StateParsesAtRest
<1>1. Init => SaveInv
  BY TypeInit DEF Init, SaveInv, SaverIsAlone, StateParsesAtRest, SavingState
<1>2. SaveInv => StateParsesAtRest
  BY DEF SaveInv
<1> QED
  BY <1>1, <1>2, SaveInvStep, PTL DEF Spec

-----------------------------------------------------------------------------
(* A damaged state file is never repaired: with a history file present no  *)
(* turn gets past the read that fails.                                     *)
THEOREM PoisonIsPermanent == Spec => PoisonedForever
<1>1. TypeOK /\ [Next]_vars => [Poisoned => Poisoned']_vars
  <2> SUFFICES ASSUME TypeOK, [Next]_vars, Poisoned PROVE Poisoned'
    OBVIOUS
  <2> DEFINE Harmless == {"closed", "receive", "build", "exists", "read",
                          "open_history", "write_history", "error"}
  <2>0. \A d \in Conn : stage[d] \in Harmless
    BY DEF Poisoned
  <2>1. CASE UNCHANGED vars
    BY <2>1 DEF vars, Poisoned, Parses
  <2>2. ASSUME NEW c \in Conn, Talk(c)
        PROVE  Poisoned'
    <3>1. UNCHANGED <<stateFile, historyFile>>
      BY <2>2 DEF Talk, Connect, Receive, Leave, BuildTeam, CheckHistory,
         ReadHistory, AgentSpeaks, RequestInput, UserReplies, StreamFails,
         SaveState, ReportError
    <3>2. stage'[c] \in Harmless
      BY <2>0, <2>2 DEF Talk, Connect, Receive, Leave, BuildTeam, CheckHistory,
         ReadHistory, AgentSpeaks, RequestInput, UserReplies, StreamFails,
         SaveState, ReportError, At, Goto, TypeOK, Poisoned
    <3>3. \A d \in Conn \ {c} : stage'[d] = stage[d]
      BY <2>0, <2>2 DEF Talk, Connect, Receive, Leave, BuildTeam, CheckHistory,
         ReadHistory, AgentSpeaks, RequestInput, UserReplies, StreamFails,
         SaveState, ReportError, At, Goto, TypeOK, Poisoned
    <3> QED
      BY <2>0, <3>1, <3>2, <3>3 DEF Poisoned, Parses
  <2>3. ASSUME NEW c \in Conn, SaveFails(c) \/ Kill(c)
        PROVE  Poisoned'
    BY <2>0, <2>3 DEF SaveFails, Kill, CutShort, Goto, EndTurn, TypeOK, Poisoned, Parses
  <2>4. ASSUME NEW c \in Conn, OpenState(c) \/ WriteState(c)
        PROVE  FALSE
    BY <2>0, <2>4 DEF OpenState, WriteState, At
  <2>5. ASSUME NEW c \in Conn, OpenHistory(c) \/ WriteHistory(c)
        PROVE  Poisoned'
    <3>1. historyFile'.body # "absent" /\ stateFile' = stateFile
      BY <2>5, WrittenFile, FileConstants
         DEF OpenHistory, WriteHistory, Opened, TypeOK
    <3>2. \A d \in Conn : stage'[d] \in Harmless
      BY <2>0, <2>5 DEF OpenHistory, WriteHistory, Goto, EndTurn, TypeOK
    <3> QED
      BY <3>1, <3>2 DEF Poisoned, Parses
  <2> QED
    BY <2>1, <2>2, <2>3, <2>4, <2>5, NextCases
<1> QED
  BY <1>1, TypeInit, TypeStep, PTL DEF Spec, PoisonedForever
==============================================================================
