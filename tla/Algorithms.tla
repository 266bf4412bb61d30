----------------------------- MODULE Algorithms -----------------------------
(* The parts of the program that compute without waiting for anything,     *)
(* checked over bounded inputs.  A behaviour chooses one input of one      *)
(* algorithm; the invariants compare what the algorithm makes of it with   *)
(* what its caller is promised.                                            *)
EXTENDS PageChecks, CommandChecks, FileChecks, ControlChecks

Names == {"call", "stream", "lines", "run", "pages", "output", "list", "read", "batch", "dump",
          "pdf", "walk", "sort", "glob", "source", "launcher", "text", "capture",
          "home", "settings", "server", "process", "engine"}
Init == input \in {[of |-> "nothing", next |-> algorithm] : algorithm \in Names}
Next == ChooseSource \/ ChooseLauncher \/ ChoosePages \/ ChooseOutput \/ ChooseList
        \/ ChooseCall \/ ChooseStream \/ ChooseOutputLines \/ ChooseRun
        \/ ChooseWalk \/ ChooseSort \/ ChooseGlobPage
        \/ ChooseText \/ ChooseCapture
        \/ ChooseRead \/ ChooseBatch \/ ChooseDump \/ ChoosePdf
        \/ ChooseEngine \/ ReleaseEngine \/ UseEngine
        \/ ChooseHome \/ ChooseSettings \/ ChooseServer \/ ChooseProcess
Spec == Init /\ [][Next]_input
-----------------------------------------------------------------------------
(* Whoever follows the pages of a grep, of a job's output or of a file     *)
(* sees each entry and each line once, and is told of what cannot be shown *)
(* (grep_tool.rs, grep_sink.rs, shell/jobs, read_tool/).                   *)
NothingIsLost == PagesAreExact /\ JobsAreAccounted /\ ReadsAreExact

(* A call is answered within its budget, with what is true of it: of the   *)
(* output of a command, of its end, and of the jobs that run beside it     *)
(* (budget.rs, background_status.rs, shell/).                              *)
AnswersAreTrue == CallsAreAnswered /\ CommandsAreShown

(* A Status without a fault means that there is nothing to repair, an Apply *)
(* repairs what it owns and nothing else, settings outlive every start and *)
(* save, a server passes the probe only if it serves what this release     *)
(* does, and only processes of the installation are ended (control/:       *)
(* doctor.rs, codex_config.rs, agents.rs, settings.rs, processes.rs).      *)
ControlIsTrue == InstallationsAreDiagnosed /\ SettingsAreKept /\ ServersAreProbed /\ ProcessesAreKnown
=============================================================================
