----------------------------- MODULE WinService -----------------------------
(***************************************************************************)
(* The daemon on both of its platforms.  On POSIX systems it is what Daemon*)
(* says.  On Windows the same code is svcInit, called from SvcMain on a    *)
(* thread of its own, while the main thread stays in the dispatcher of the *)
(* service manager, which calls SvcCtrlHandler there; both threads report  *)
(* through the one global gSvcStatus.                                      *)
(*                                                                         *)
(* dpc goes on to be the position of svcInit and SvcMain.                  *)
(***************************************************************************)
EXTENDS Daemon

VARIABLES
  platform,   \* "posix" or "windows": _WIN32
  status,     \* gSvcStatus.dwCurrentState
  scm,        \* the state the service manager was last told
  cpc,        \* control state of SvcCtrlHandler
  again       \* the state it is about to report once more

winVars == <<platform, status, scm, cpc, again>>
serviceVars == <<allVars, winVars>>

ServiceStates == {"none", "START_PENDING", "RUNNING", "STOP_PENDING", "STOPPED"}

ServiceInit ==
  /\ DaemonInit
  /\ platform \in {"posix", "windows"}
  /\ status = "none" /\ scm = "none" /\ cpc = "idle" /\ again = "none"

\* The manager takes STOPPED for the end of the service.
Told(state) == IF scm = "STOPPED" THEN scm ELSE state

\* svcInit or SvcMain at p, on Windows.
SvcAt(p) == platform = "windows" /\ MainAt(p)

\* ReportSvcStatus: gSvcStatus is filled in and passed on.  While no control
\* has been sent yet nobody comes in between.
Report(state) == status' = state /\ scm' = Told(state)

SvcKeeps == UNCHANGED <<platform, cpc, again, folder, todo, signals>>

-----------------------------------------------------------------------------
\* SvcMain and svcInit.

RegisterService ==
  /\ SvcAt("load") /\ status = "none"
  /\ Report("START_PENDING")
  /\ MainOnly /\ SvcKeeps /\ UNCHANGED dpc

\* The code main has on POSIX systems, too.
Shared ==
  /\ platform = "windows" /\ status # "none"
  /\ \/ \E s \in folder : SkipIgnored(s) \/ Load(s)
     \/ InstallHandler \/ Announce \/ Wait \/ WakeUp \/ Stop
  /\ UNCHANGED winVars

\* An address that is no number throws through svcInit and SvcMain.
LoadThrows ==
  /\ SvcAt("load") /\ status # "none"
  /\ \E s \in todo : ~Ignored(s) /\ ~s.numeric
  /\ Terminate("uncaught exception")
  /\ UNCHANGED <<starts, daemonVars, winVars>>

\* No path, a file that does not parse, a service that is refused: svcInit
\* reports STOPPED and returns to SvcMain, which will report it again.
LoadStops ==
  /\ SvcAt("load") /\ status # "none" /\ todo # {}
  /\ Report("STOPPED")
  /\ dpc' = "return"
  /\ MainOnly /\ SvcKeeps

StartService ==
  /\ SvcAt("start")
  /\ StartListener
  /\ dpc' = "report"
  /\ SvcKeeps /\ UNCHANGED <<status, scm>>

ReportRunning ==
  /\ SvcAt("report")
  /\ Report("RUNNING")
  /\ dpc' = "announce"
  /\ MainOnly /\ SvcKeeps

\* Slip: SvcMain does not wait for the listener to be stopped.
FillInEarly ==
  /\ SvcAt("return") \/ (platform = "windows" /\ dpc = "stopping" /\ fate = "up")
  /\ status' = "STOPPED"
  /\ dpc' = "tell"
  /\ MainOnly /\ SvcKeeps /\ UNCHANGED scm

\* The last report of SvcMain, in its two steps: a control may be in progress.
FillInStopped ==
  /\ SvcAt("stopping") \/ SvcAt("return")
  /\ status' = "STOPPED"
  /\ dpc' = "tell"
  /\ MainOnly /\ SvcKeeps /\ UNCHANGED scm

TellStopped ==
  /\ SvcAt("tell")
  /\ scm' = Told(status)
  /\ dpc' = "done"
  /\ MainOnly /\ SvcKeeps /\ UNCHANGED status

-----------------------------------------------------------------------------
\* SvcCtrlHandler.

HandlerKeeps == MainOnly /\ UNCHANGED <<platform, folder, todo, signals>>

CtrlAt(p) == platform = "windows" /\ fate = "up" /\ cpc = p

\* The manager passes STOP on to a service that it takes for a running one.
Control ==
  /\ CtrlAt("idle") /\ scm = "RUNNING"
  /\ cpc' = "fill in"
  /\ HandlerKeeps /\ UNCHANGED <<dpc, status, scm, again>>

FillInPending ==
  /\ CtrlAt("fill in")
  /\ status' = "STOP_PENDING" /\ cpc' = "tell"
  /\ HandlerKeeps /\ UNCHANGED <<dpc, scm, again>>

TellPending ==
  /\ CtrlAt("tell")
  /\ scm' = Told(status) /\ cpc' = "notify"
  /\ HandlerKeeps /\ UNCHANGED <<dpc, status, again>>

\* Slip: nobody is notified.
NotifyNobody ==
  /\ CtrlAt("notify")
  /\ cpc' = "read"
  /\ HandlerKeeps /\ UNCHANGED <<dpc, status, scm, again>>

\* gCv.notify_all(): whoever waits now, and nobody later.
Notify ==
  /\ CtrlAt("notify")
  /\ dpc' = IF dpc = "wait" THEN "stop" ELSE dpc
  /\ cpc' = "read"
  /\ HandlerKeeps /\ UNCHANGED <<status, scm, again>>

\* ReportSvcStatus(gSvcStatus.dwCurrentState, ...)
ReadStatus ==
  /\ CtrlAt("read")
  /\ again' = status /\ cpc' = "fill in again"
  /\ HandlerKeeps /\ UNCHANGED <<dpc, status, scm>>

FillInAgain ==
  /\ CtrlAt("fill in again")
  /\ status' = again /\ cpc' = "tell again"
  /\ HandlerKeeps /\ UNCHANGED <<dpc, scm, again>>

TellAgain ==
  /\ CtrlAt("tell again")
  /\ scm' = Told(status) /\ cpc' = "idle"
  /\ HandlerKeeps /\ UNCHANGED <<dpc, status, again>>

ControlNext ==
  \/ FillInPending \/ TellPending \/ Notify \/ ReadStatus \/ FillInAgain
  \/ TellAgain

-----------------------------------------------------------------------------
\* The dispatcher returns when the manager knows that the service has stopped,
\* whether or not SvcMain has returned, and main with it.
DispatcherReturns ==
  /\ CtrlAt("idle") /\ scm = "STOPPED"
  /\ Terminate("exit 0")
  /\ UNCHANGED <<starts, daemonVars, winVars>>

\* SvcMain has returned and the dispatcher still waits.
Dispatching ==
  /\ CtrlAt("idle") /\ dpc = "done" /\ scm # "STOPPED"
  /\ UNCHANGED serviceVars

SvcNext ==
  \/ RegisterService \/ LoadThrows \/ LoadStops \/ StartService
  \/ ReportRunning \/ FillInStopped \/ TellStopped \/ DispatcherReturns

Library == (LibraryNext \/ Arrive \/ Gone) /\ UNCHANGED <<daemonVars, winVars>>

Posix == platform = "posix" /\ (MainNext \/ WakeUp \/ Sigint) /\ UNCHANGED winVars

ServiceNext ==
  \/ Posix \/ Library
  \/ SvcNext \/ Shared \/ Control \/ ControlNext \/ Dispatching

ServiceSpec == ServiceInit /\ [][ServiceNext]_serviceVars

\* Every thread runs when it can.  Nobody has to send a signal or a control,
\* and a wait need not end on its own.
ServiceFairSpec ==
  /\ ServiceSpec
  /\ WF_serviceVars(Posix /\ MainNext)
  /\ WF_serviceVars(SvcNext \/ (Shared /\ dpc # "wait"))
  /\ WF_serviceVars(ControlNext)
  /\ WF_serviceVars(HandlerNext /\ UNCHANGED <<daemonVars, winVars>>)
  /\ WF_serviceVars(CallNext /\ UNCHANGED <<daemonVars, winVars>>)

-----------------------------------------------------------------------------
\* Properties.

\* The manager hears RUNNING after the listener was started, with all that the
\* files say, and STOPPED after its thread is gone.
StatusIsTrue ==
  /\ scm = "RUNNING" => starts = 1 /\ todo = {}
  /\ "STOPPED" \in {status, scm} => hpc = "none" /\ ~running

\* Once the listener's flag is down, stopListener returns and svcInit with it.
ListenerStops ==
  dpc = "stopping" /\ hpc \in Loop /\ ~running ~> hpc = "none" \/ fate # "up"

\* A STOP that finds svcInit waiting ends the listener that is up.
ControlStops ==
  cpc = "notify" /\ dpc = "wait" /\ hpc \in Loop
    ~> hpc = "none" \/ fate # "up"

-----------------------------------------------------------------------------
\* What the service says of itself and the code does not do.

\* "This call returns when the service has stopped.  The process should simply
\* terminate when the call returns."  Both threads fill in gSvcStatus: a report
\* of STOP_PENDING that overwrites STOPPED before it is passed on keeps the
\* manager, and the dispatcher, waiting for ever.
StoppedServiceEnds == dpc = "done" ~> fate # "up"

=============================================================================
