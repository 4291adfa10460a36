--------------------------- MODULE CodingSession ---------------------------
(***************************************************************************)
(* One session of a coding agent on a staged App (run_coding_agent_acp):   *)
(* its process, the permissions it asks of FastAPIACPClient, the repairs   *)
(* the validator calls for, and what becomes of the staging directory      *)
(* however the session ends.                                               *)
(*                                                                         *)
(* Granularity: the session's task runs from one await to the next in one  *)
(* action; the messages of the agent are handled in between, each without  *)
(* an await.  Every message about files names one file; its change is      *)
(* [file, from, to].  Wording, parsing of diffs, redaction of output and   *)
(* the limits on it are left out: what they refuse is an unclear message.  *)
(***************************************************************************)
EXTENDS Naturals, Sequences, FiniteSets, SequencesExt

CONSTANTS
  ToolCalls,     \* ids of the agent's tool calls
  Files,         \* the artifacts it may write
  Texts,         \* contents of a file
  Findings,      \* findings of the validator that can be repaired
  MaxPending,    \* _MAX_PENDING_FILE_CHANGES
  MaxMessages,   \* bound: messages of the agent
  MaxRepairs,    \* bound: repairs
  MaxStops,      \* bound: cancellations of the task
  MaxSessions    \* bound: sessions on the same draft

Missing == "missing"
Nothing == "nothing"
Changes == [file : Files, from : Texts \cup {Missing}, to : Texts]

VARIABLES
  turn,          \* where the task is
  patching,      \* codex_diff_patch
  promotes,      \* argument promote
  owns,          \* owns_staging
  agent,         \* the process of the agent
  terminal,      \* a terminal it opened
  file,          \* the staged artifacts
  evidence,      \* pending_file_changes
  order,         \* its keys, oldest first
  shows,         \* changes reported under an id since it was settled
  grants,        \* permissions given and not used yet
  found,         \* the last finding, with the artifacts it is about
  repairs,       \* repair_attempts
  ending,        \* how the session is going to end
  outcome,       \* how it ended
  staging,       \* the directory
  messages, stops, rounds   \* for the bounds

fileVars == <<file, evidence, order, shows, grants, messages>>
taskVars == <<turn, promotes, owns, found, repairs, ending, outcome, staging, rounds>>
codingVars == <<fileVars, taskVars, patching, agent, terminal, stops>>

NoFinding == [what |-> Nothing, about |-> <<>>]
Clean == [change |-> {}, captured |-> <<>>, malformed |-> FALSE]

Init ==
  /\ turn = "start" /\ patching \in BOOLEAN /\ promotes \in BOOLEAN /\ owns = TRUE
  /\ agent = "none" /\ terminal = "none"
  /\ file = [f \in Files |-> Missing] /\ order = <<>>
  /\ evidence = [c \in ToolCalls |-> Clean] /\ shows = [c \in ToolCalls |-> {}] /\ grants = {}
  /\ found = NoFinding /\ repairs = 0 /\ ending = Nothing /\ outcome = Nothing
  /\ staging = "present" /\ messages = 0 /\ stops = 0 /\ rounds = 1

-----------------------------------------------------------------------------
(* A tool call is settled: what was reported for it no longer counts.      *)
Drop(c) ==
  /\ evidence' = [evidence EXCEPT ![c] = Clean]
  /\ shows' = [shows EXCEPT ![c] = {}]
  /\ order' = Remove(order, c)

AgentSpeaks == agent = "alive" /\ messages < MaxMessages /\ messages' = messages + 1
OnlyFiles == UNCHANGED <<taskVars, patching, agent, terminal, stops>>

(* _remember_file_change.  Mutant: the last report of an id counts.        *)
RememberedAs(c, e) == e
Remembered(c, e) ==
  IF c \notin ToSet(order) \/ evidence[c] = e THEN e
  ELSE [e EXCEPT !.change = @ \cup evidence[c].change, !.malformed = TRUE]

Reports(c, change, unclear) ==
  LET e == [change |-> {change}, malformed |-> unclear,
            captured |-> IF patching THEN <<file[change.file]>> ELSE <<>>]
      kept == IF c \in ToSet(order) /\ evidence[c] # e THEN Remove(order, c) ELSE order
      full == c \notin ToSet(kept) /\ Len(kept) >= MaxPending
      out == IF full THEN {Head(kept)} ELSE {}
  IN
  /\ AgentSpeaks
  /\ evidence' = [d \in ToolCalls |-> IF d = c THEN Remembered(c, e)
                                      ELSE IF d \in out THEN Clean ELSE evidence[d]]
  /\ shows' = [d \in ToolCalls |-> IF d = c THEN shows[c] \cup {change}
                                   ELSE IF d \in out THEN {} ELSE shows[d]]
  /\ order' = IF c \in ToSet(kept) THEN kept
              ELSE Append(IF full THEN Tail(kept) ELSE kept, c)
  /\ UNCHANGED <<file, grants>> /\ OnlyFiles

(* tool_call_update: completed or failed.                                  *)
ToolEnds(c) ==
  /\ AgentSpeaks /\ c \in ToSet(order) /\ Drop(c) /\ UNCHANGED <<file, grants>> /\ OnlyFiles

(* A change starts from what is in the file: the text or digest it states, *)
(* or a patch that applies (_git_patch_proves_change); with patches, the   *)
(* file must also be as it was at the report.                              *)
Applies(change) == file[change.file] = change.from
Proved(change, captured) ==
  Applies(change) /\ (captured # <<>> => captured = <<file[change.file]>>)

(* request_permission for an edit.  Without patches the request may state  *)
(* changes itself; unclear, it only settles the tool call.                 *)
AsksPermission(c, direct, unclear) ==
  LET e == evidence[c]
      asked == e.change \cup direct
      allowed == /\ asked # {} /\ ~e.malformed /\ ~unclear
                 /\ (patching => direct = {})
                 /\ \A change \in asked : Proved(change, e.captured)
  IN
  /\ AgentSpeaks /\ Drop(c) /\ UNCHANGED file /\ OnlyFiles
  /\ grants' = IF allowed THEN grants \cup {[call |-> c, changes |-> asked]} ELSE grants

(* The agent writes what it was allowed to, or through write_text_file.    *)
Uses(g) ==
  /\ agent = "alive" /\ grants' = grants \ {g}
  /\ file' = [f \in Files |->
       IF \E change \in g.changes : change.file = f
       THEN (CHOOSE change \in g.changes : change.file = f).to ELSE file[f]]
  /\ UNCHANGED <<evidence, order, shows, messages>> /\ OnlyFiles
Writes(f, text) ==
  /\ AgentSpeaks /\ file' = [file EXCEPT ![f] = text]
  /\ UNCHANGED <<evidence, order, shows, grants>> /\ OnlyFiles

(* create_terminal, the end of its command, kill_terminal, release_terminal*)
OpensTerminal ==
  /\ AgentSpeaks /\ terminal = "none" /\ terminal' = "running"
  /\ UNCHANGED <<file, evidence, order, shows, grants, taskVars, patching, agent, stops>>
TerminalEnds ==
  /\ terminal = "running" /\ terminal' = "exited"
  /\ UNCHANGED <<fileVars, taskVars, patching, agent, stops>>
ReleasesTerminal ==
  /\ agent = "alive" /\ terminal # "none" /\ terminal' = "none"
  /\ UNCHANGED <<fileVars, taskVars, patching, agent, stops>>

-----------------------------------------------------------------------------
(* The task: run_coding_agent_acp.                                         *)
Only(vs) == UNCHANGED <<fileVars, patching, terminal, stops, vs>>

Spawns ==
  /\ turn = "start" /\ agent' = "alive" /\ turn' = "initialize"
  /\ Only(<<promotes, owns, found, repairs, ending, outcome, staging, rounds>>)
SpawnFails ==
  /\ turn = "start" /\ turn' = "finally" /\ ending' = "failed"
  /\ Only(<<agent, promotes, owns, found, repairs, outcome, staging, rounds>>)

(* initialize, configure_agent, new_session; the prompt is sent.           *)
Initialized ==
  /\ turn = "initialize" /\ agent = "alive" /\ turn' = "prompt"
  /\ Only(<<agent, promotes, owns, found, repairs, ending, outcome, staging, rounds>>)
EndsTurn ==
  /\ turn = "prompt" /\ agent = "alive" /\ turn' = "validate"
  /\ Only(<<agent, promotes, owns, found, repairs, ending, outcome, staging, rounds>>)

(* An error of the protocol, or an agent that is gone.                     *)
Breaks ==
  /\ turn \in {"initialize", "prompt"} /\ turn' = "close" /\ ending' = "failed"
  /\ Only(<<agent, promotes, owns, found, repairs, outcome, staging, rounds>>)

TimesOut ==
  /\ turn = "prompt" /\ turn' = "terminate" /\ ending' = "failed"
  /\ agent' = IF agent = "alive" THEN "told" ELSE agent
  /\ Only(<<promotes, owns, found, repairs, outcome, staging, rounds>>)

Validates ==
  /\ turn = "validate" /\ turn' = "close" /\ ending' = "staged"
  /\ Only(<<agent, promotes, owns, found, repairs, outcome, staging, rounds>>)

(* A finding: decide_widget_repair.                                        *)
Authorizes(what) == what \in Findings /\ what # found.what /\ found.about # file
Finds(what) ==
  /\ turn = "validate" /\ repairs < MaxRepairs
  /\ found' = [what |-> what, about |-> file]
  /\ IF Authorizes(what) THEN turn' = "prompt" /\ repairs' = repairs + 1 /\ UNCHANGED ending
     ELSE turn' = "close" /\ ending' = "failed" /\ UNCHANGED repairs
  /\ Only(<<agent, promotes, owns, outcome, staging, rounds>>)

(* spawn_agent_process ends: the agent gets the end of its input and, in   *)
(* the end, a signal; a terminated one is waited for.                      *)
Terminated ==
  /\ turn = "terminate" /\ agent = "dead" /\ turn' = "close"
  /\ Only(<<agent, promotes, owns, found, repairs, ending, outcome, staging, rounds>>)
Closes ==
  /\ turn = "close" /\ agent = "alive" /\ agent' = "told"
  /\ Only(<<turn, promotes, owns, found, repairs, ending, outcome, staging, rounds>>)
Closed ==
  /\ turn = "close" /\ agent = "dead" /\ turn' = "finally"
  /\ \/ UNCHANGED <<staging, ending>> /\ ~(ending = "staged" /\ promotes)
     \/ ending = "staged" /\ promotes /\ staging' = "promoted" /\ UNCHANGED ending
     \/ ending = "staged" /\ promotes /\ ending' = "failed" /\ UNCHANGED staging
  /\ Only(<<agent, promotes, owns, found, repairs, outcome, rounds>>)

AgentExits ==
  /\ agent \in {"alive", "told"} /\ agent' = "dead"
  /\ UNCHANGED <<fileVars, taskVars, patching, terminal, stops>>

(* finally.  Mutant: the directory is removed first.                       *)
MayCleanUpAs == TRUE
MayCleanUp == agent \in {"none", "dead"}
Keeps == ~promotes /\ ending # "cancelled"
TerminatesLast ==
  /\ turn = "finally" /\ agent = "alive" /\ agent' = "told"
  /\ Only(<<turn, promotes, owns, found, repairs, ending, outcome, staging, rounds>>)
Ends ==
  /\ turn = "finally" /\ MayCleanUp /\ turn' = "ended"
  /\ staging' = IF owns /\ ~Keeps /\ staging = "present" THEN "removed" ELSE staging
  /\ outcome' = IF ending = "failed" /\ Keeps THEN "draft" ELSE ending
  /\ Only(<<agent, promotes, owns, found, repairs, ending, rounds>>)

(* The Run is cancelled, perhaps again: CancelledError at the await.       *)
Stop ==
  /\ stops < MaxStops /\ stops' = stops + 1 /\ turn # "ended" /\ ending' = "cancelled"
  /\ \/ turn = "start" /\ turn' = "finally" /\ UNCHANGED <<agent, outcome>>
     \/ turn \in {"initialize", "validate"} /\ turn' = "close" /\ UNCHANGED <<agent, outcome>>
     \/ turn = "prompt" /\ turn' = "terminate" /\ UNCHANGED outcome
        /\ agent' = IF agent = "alive" THEN "told" ELSE agent
     \/ turn = "terminate" /\ turn' = "close" /\ UNCHANGED <<agent, outcome>>
     \/ turn = "close" /\ turn' \in {"close", "finally"} /\ UNCHANGED <<agent, outcome>>
     \/ turn = "finally" /\ agent \notin {"none", "dead"} /\ turn' = "ended" /\ outcome' = "cancelled"
        /\ UNCHANGED agent
  /\ UNCHANGED <<fileVars, patching, terminal, promotes, owns, found, repairs, staging, rounds>>

(* The Run goes on with the draft, after an error or after its review      *)
(* (_staged_result).                                                       *)
Resumes ==
  /\ turn = "ended" /\ outcome \in {"draft", "staged"} /\ staging = "present" /\ rounds < MaxSessions
  /\ rounds' = rounds + 1 /\ turn' = "start" /\ owns' = FALSE /\ agent' = "none"
  /\ ending' = Nothing /\ outcome' = Nothing /\ terminal' = "none"
  /\ evidence' = [c \in ToolCalls |-> Clean] /\ shows' = [c \in ToolCalls |-> {}]
  /\ order' = <<>> /\ grants' = {}
  /\ UNCHANGED <<file, messages, patching, promotes, found, repairs, staging, stops>>

Next ==
  \/ \E c \in ToolCalls :
       \/ ToolEnds(c)
       \/ \E change \in Changes : \E unclear \in BOOLEAN : Reports(c, change, unclear)
       \/ \E direct \in {{}} \cup {{change} : change \in Changes} :
            \E unclear \in BOOLEAN : AsksPermission(c, direct, unclear)
  \/ \E g \in grants : Uses(g)
  \/ \E f \in Files, text \in Texts : Writes(f, text)
  \/ OpensTerminal \/ TerminalEnds \/ ReleasesTerminal
  \/ Spawns \/ SpawnFails \/ Initialized \/ EndsTurn \/ Breaks \/ TimesOut \/ Validates
  \/ \E what \in Findings \cup {"operator"} : Finds(what)
  \/ Terminated \/ Closes \/ Closed \/ AgentExits \/ TerminatesLast \/ Ends \/ Stop \/ Resumes

Spec == Init /\ [][Next]_codingVars

-----------------------------------------------------------------------------
TypeOK ==
  /\ turn \in {"start", "initialize", "prompt", "validate", "terminate", "close", "finally", "ended"}
  /\ agent \in {"none", "alive", "told", "dead"}
  /\ terminal \in {"none", "running", "exited"}
  /\ \A f \in Files : file[f] \in Texts \cup {Missing}
  /\ \A c \in ToolCalls : evidence[c].change \subseteq Changes
  /\ Len(order) <= MaxPending /\ IsInjective(order)
  /\ staging \in {"present", "removed", "promoted"}

(* A permission covers everything the agent showed under the id of the     *)
(* tool call since that was last settled or evicted, and every bit of it   *)
(* was true of the files when the permission was given; shown twice with   *)
(* different changes, the id is good for nothing (_remember_file_change,   *)
(* request_permission).                                                    *)
GrantCoversReportStep ==
  \A g \in grants' \ grants :
       /\ shows[g.call] \subseteq g.changes /\ Cardinality(shows[g.call]) <= 1
       /\ \A change \in g.changes : file[change.file] = change.from
GrantCoversReport == [][GrantCoversReportStep]_codingVars

(* The staging directory is removed, promoted or handed on only when the   *)
(* agent is gone, whatever ended the session and however often it was      *)
(* cancelled meanwhile: nothing writes to it behind the back of its next   *)
(* owner (run_coding_agent_acp, finally).                                  *)
QuietStaging ==
  staging # "present" \/ outcome \in {"staged", "draft"} => agent \in {"none", "dead"}
=============================================================================
