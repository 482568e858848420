----------------------------- MODULE ConfigWatch -----------------------------
(***************************************************************************)
(* How the configuration of a running server follows its file: serve reads *)
(* and parses it once, and watchConfig polls it, compares its digest with  *)
(* the last one and hands a new valid configuration to Service.Reload.     *)
(*                                                                         *)
(* The file belongs to somebody else.  It can be replaced at any moment,   *)
(* also between a read and the reload that it leads to, by something that  *)
(* cannot be parsed, by what it was before, or by nothing that can be      *)
(* read.  A content stands for its digest.                                 *)
(***************************************************************************)
EXTENDS Naturals

CONSTANTS
    Contents,   \* what the file can contain
    Configs,    \* the validated configurations
    Parsed,     \* config.Parse: the configuration of each content, or None
    MaxEdits,   \* bound: how often the file is replaced
    None

ASSUME ParsedAssumption == Parsed \in [Contents -> Configs \cup {None}]
ASSUME AbsentAssumption == None \notin Contents \cup Configs
ASSUME EditsAssumption  == MaxEdits \in Nat

VARIABLES
    file,      \* the content of the file, or None when it cannot be read
    process,   \* whether serve is starting, serving or has exited
    last,      \* watchConfig: the content that was read last
    pending,   \* watchConfig: parsed, but not yet given to Reload
    cfg,       \* Service.cfg
    edits      \* how often the file has been replaced

watchVars == <<file, process, last, pending, cfg, edits>>

Serving == process = "serving"

\* The contents that Parse accepts.
Valid == {c \in Contents : Parsed[c] # None}

-----------------------------------------------------------------------------
(* serve *)

\* Seeded fault: the watcher takes its first digest from a read of its own, before
\* which the file can have been replaced.
StartReadingTwice ==
    /\ process = "starting" /\ file \in Valid
    /\ cfg' = Parsed[file]
    /\ \E c \in Contents : file' = c /\ last' = c
    /\ process' = "serving"
    /\ UNCHANGED <<pending, edits>>

\* loadWithDigest: configuration and digest come from one read of the file.
Start ==
    /\ process = "starting" /\ file \in Valid
    /\ cfg' = Parsed[file]
    /\ last' = file
    /\ process' = "serving"
    /\ UNCHANGED <<file, pending, edits>>

\* Nothing is served without a valid configuration.
StartFails ==
    /\ process = "starting" /\ file \notin Valid
    /\ process' = "exited"
    /\ UNCHANGED <<file, last, pending, cfg, edits>>

\* A signal ends the context, Shutdown closes the listener, ListenAndServe and with
\* it serve return; or listening has failed.  Nothing waits for the watcher.
Exit ==
    /\ Serving
    /\ process' = "exited"
    /\ UNCHANGED <<file, last, pending, cfg, edits>>

\* Somebody replaces the file.
Edit ==
    /\ edits < MaxEdits /\ edits' = edits + 1
    /\ \E c \in (Contents \cup {None}) \ {file} : file' = c
    /\ UNCHANGED <<process, last, pending, cfg>>

-----------------------------------------------------------------------------
(* watchConfig *)

\* Seeded fault: every read is compared with the first one.
PollAgainstFirst ==
    /\ Serving /\ pending = None
    /\ file # None /\ file # last
    /\ pending' = Parsed[file]
    /\ UNCHANGED <<file, process, last, cfg, edits>>

\* The ticker fires and the file can be read and has changed: its digest is
\* remembered before it is parsed, so a content that is refused is not tried again.
Poll ==
    /\ Serving /\ pending = None
    /\ file # None /\ file # last
    /\ last' = file
    /\ pending' = Parsed[file]
    /\ UNCHANGED <<file, process, cfg, edits>>

\* onChange: Reload makes the configuration the active one.
Apply ==
    /\ Serving /\ pending # None
    /\ cfg' = pending
    /\ pending' = None
    /\ UNCHANGED <<file, process, last, edits>>

WatchInit ==
    /\ file \in Contents \cup {None}
    /\ process = "starting"
    /\ last = None /\ pending = None /\ cfg = None
    /\ edits = 0

WatchNext == Start \/ StartFails \/ Exit \/ Edit \/ Poll \/ Apply

\* The ticker keeps firing, and its goroutine is never kept waiting.
WatchFairness == WF_watchVars(Start) /\ WF_watchVars(Poll) /\ WF_watchVars(Apply)

WatchSpec == WatchInit /\ [][WatchNext]_watchVars /\ WatchFairness

-----------------------------------------------------------------------------
(* Properties *)

WatchTypeOK ==
    /\ file \in Contents \cup {None}
    /\ process \in {"starting", "serving", "exited"}
    /\ last \in Contents \cup {None}
    /\ pending \in Configs \cup {None}
    /\ cfg \in Configs \cup {None}
    /\ edits \in 0..MaxEdits

\* What watchConfig will not read again is in force: the content it remembers is the
\* active or the pending configuration, or was refused; and whatever happens to the
\* file, the server has a configuration.
RememberedIsActive ==
    Serving =>
      /\ cfg # None /\ last # None
      /\ last \in Valid => Parsed[last] = IF pending # None THEN pending ELSE cfg

\* README.md: "The server automatically reloads a changed configuration file".  When
\* the file stays as it is, and is valid, it is what the server ends up with, whatever
\* was read, refused or not readable before.
FileTakesEffect ==
    \A c \in Valid :
        <>[](Serving /\ file = c) => <>[](cfg = Parsed[c])
=============================================================================
