---------------------------- MODULE ServiceProofs ----------------------------
(***************************************************************************)
(* Theorems about the daemon on both of its platforms, for any service     *)
(* files, any requests, and any signals and controls.                      *)
(***************************************************************************)
EXTENDS WinService, ListenerProofs

\* The inductive invariant.  Each position of main, or of svcInit and SvcMain,
\* fixes what the library's two threads may be doing, ...
Quiet == {"load", "start", "return", "tell", "done"}
Serving == {"report", "announce", "lock", "wait", "stop"}

Positions ==
  /\ dpc \in Quiet \cup Serving \cup {"stopping"}
  /\ pc \in [Threads -> {"idle", "lock", "push", "unlock", "join"}]
  /\ dpc \in Quiet => hpc = "none"
  /\ dpc \in Serving => hpc # "none"
  /\ dpc = "stopping" => (pc[Owner] = "join" <=> hpc # "none")
  /\ pc[Owner] = "join" => dpc = "stopping"
  /\ pc[Owner] \in {"lock", "push", "unlock"} => dpc = "load"

\* ... who can hold the mutex and when the flag can be up, ...
Holders ==
  /\ mutex \in {Owner, Handler, Free}
  /\ mutex = Owner => pc[Owner] \in {"push", "unlock"}
  /\ mutex = Handler => hpc = "match"
  /\ running => hpc \in Loop

Usable(s) == s.numeric /\ ValidEntry(EntryOf(s))

\* ... how far the files have been read, ...
Reading ==
  /\ \A s \in folder : s \in todo \/ Ignored(s) \/ Usable(s)
  /\ dpc \in {"start", "stopping"} \cup Serving => todo = {}
  /\ dpc \in {"load", "start", "return"} => starts = 0
  /\ dpc \in {"stopping"} \cup Serving => starts = 1

\* ... and what the service manager may have been told, or be told next.
Telling ==
  /\ "STOPPED" \in {status, scm, again} => dpc \in {"return", "tell", "done"}
  /\ "RUNNING" \in {status, scm, again} \/ cpc # "idle"
       => starts = 1 /\ todo = {}

Ending ==
  /\ LibraryUsedRightly
  /\ CleanExit

ServiceInv == Positions /\ Holders /\ Reading /\ Telling /\ Ending

-----------------------------------------------------------------------------
LEMMA OnlyOwner == Threads = {Owner} /\ Owner \in Threads
BY DaemonAssumption DEF Threads

LEMMA MutexValues == Owner # Free /\ Handler # Free /\ Owner # Handler
BY ListenerAssumption DEF Threads

LEMMA InitServiceInv == ServiceInit => ServiceInv
<1> SUFFICES ASSUME ServiceInit PROVE ServiceInv
  OBVIOUS
<1> USE OnlyOwner, MutexValues DEF ServiceInit, DaemonInit, Init
<1>1. Positions
  BY DEF Positions, Quiet, Serving
<1>2. Holders
  BY DEF Holders
<1>3. Reading
  BY DEF Reading, Serving
<1>4. Telling
  BY DEF Telling
<1>5. Ending
  BY DEF Ending, LibraryUsedRightly, CleanExit
<1> QED
  BY <1>1, <1>2, <1>3, <1>4, <1>5 DEF ServiceInv

\* A step outside the library leaves its threads and their locks alone.
LEMMA MainOnlyKeeps ==
  ASSUME ServiceInv, MainOnly
  PROVE  Holders' /\ Ending'
BY DEF ServiceInv, Holders, Ending, LibraryUsedRightly, CleanExit, MainOnly,
       vars, appVars, registry

\* Terminating the process stops every thread where it is.
LEMMA TerminateKeeps ==
  ASSUME ServiceInv, NEW why, Terminate(why),
         UNCHANGED <<starts, daemonVars, winVars>>
  PROVE  Positions' /\ Holders' /\ Reading' /\ Telling'
BY DEF ServiceInv, Terminate, appVars, registry, daemonVars, winVars, Positions,
       Holders, Reading, Telling, Ignored

-----------------------------------------------------------------------------
\* The steps main and svcInit share, up to the start of the listener.
LEMMA LoadingKeeps ==
  ASSUME ServiceInv, UNCHANGED winVars,
         \/ \E s \in folder : SkipIgnored(s) \/ Load(s)
         \/ InstallHandler
  PROVE  ServiceInv'
<1> USE OnlyOwner DEF winVars
<1>1. ASSUME NEW s \in folder, SkipIgnored(s) PROVE ServiceInv'
  <2>1. Positions' /\ Reading' /\ Telling'
    BY <1>1 DEF SkipIgnored, MainAt, MainOnly, vars, appVars, ServiceInv,
                Positions, Quiet, Serving, Reading, Telling
  <2> QED
    BY <1>1, <2>1, MainOnlyKeeps DEF SkipIgnored, ServiceInv
<1>2. ASSUME NEW s \in folder, Load(s) PROVE ServiceInv'
  <2> USE <1>2 DEF Load, AddService, MainAt, ServiceInv
  <2>1. Positions'
    BY DEF Positions, Quiet, Serving
  <2>2. Holders'
    BY DEF Holders, registry
  <2>3. Reading' /\ Telling'
    BY DEF Reading, Telling, Serving, Usable
  <2>4. Ending'
    BY DEF Ending, LibraryUsedRightly, CleanExit
  <2> QED
    BY <2>1, <2>2, <2>3, <2>4
<1>3. CASE InstallHandler
  <2>1. Positions' /\ Reading' /\ Telling'
    BY <1>3 DEF InstallHandler, Loaded, MainAt, MainOnly, vars, appVars,
                ServiceInv, Positions, Quiet, Serving, Reading, Telling
  <2> QED
    BY <1>3, <2>1, MainOnlyKeeps DEF InstallHandler, ServiceInv
<1> QED
  BY <1>1, <1>2, <1>3

\* Starting the listener, on the way to p: nothing is joinable at that point.
LEMMA StartKeeps ==
  ASSUME ServiceInv, MainAt("start"), StartListener,
         dpc' \in {"report", "announce"},
         UNCHANGED <<folder, todo, winVars>>
  PROVE  ServiceInv'
<1> USE OnlyOwner DEF winVars, ServiceInv, MainAt
<1>1. /\ hpc = "none" /\ hpc' = "bind" /\ starts' = starts + 1
      /\ UNCHANGED <<fate, running, pc, mutex>>
  BY DEF StartListener, appVars, registry, Positions, Quiet
<1>2. Positions'
  BY <1>1 DEF Positions, Quiet, Serving
<1>3. Holders' /\ Ending'
  BY <1>1 DEF Holders, Ending, LibraryUsedRightly, CleanExit, Loop
<1>4. Reading' /\ Telling'
  BY <1>1 DEF Reading, Telling, Serving
<1> QED
  BY <1>2, <1>3, <1>4

\* The steps they share from there on.
LEMMA RunningKeeps ==
  ASSUME ServiceInv, UNCHANGED winVars, Announce \/ Wait \/ WakeUp \/ Stop
  PROVE  ServiceInv'
<1> USE OnlyOwner DEF winVars, ServiceInv, MainAt
<1>1. CASE Announce \/ Wait \/ WakeUp
  <2>1. Positions' /\ Reading' /\ Telling'
    BY <1>1 DEF Announce, Wait, WakeUp, MainOnly, vars, appVars, Positions,
                Quiet, Serving, Reading, Telling
  <2> QED
    BY <1>1, <2>1, MainOnlyKeeps DEF Announce, Wait, WakeUp
<1>2. CASE Stop
  <2> USE <1>2 DEF Stop, StopListener
  <2>1. Positions'
    BY DEF Positions, Quiet, Serving
  <2>2. Holders' /\ Ending'
    BY DEF Holders, Ending, LibraryUsedRightly, CleanExit, registry
  <2>3. Reading' /\ Telling'
    BY DEF Reading, Telling, Serving
  <2> QED
    BY <2>1, <2>2, <2>3
<1> QED
  BY <1>1, <1>2

\* The steps only the POSIX main has.
LEMMA PosixKeeps ==
  ASSUME ServiceInv, UNCHANGED winVars, LoadFails \/ Start \/ Return \/ Sigint
  PROVE  ServiceInv'
<1> USE OnlyOwner DEF ServiceInv
<1>1. CASE LoadFails
  <2>1. PICK why \in {"uncaught exception", "exit 1"} :
           Terminate(why) /\ UNCHANGED <<starts, daemonVars, winVars>>
    BY <1>1 DEF LoadFails
  <2>2. Ending'
    BY <2>1 DEF Terminate, Ending, LibraryUsedRightly, CleanExit
  <2> QED
    BY <2>1, <2>2, TerminateKeeps
<1>2. CASE Start
  BY <1>2, StartKeeps DEF Start
<1>3. CASE Return
  <2>1. Terminate("exit 0") /\ UNCHANGED <<starts, daemonVars, winVars>>
    BY <1>3 DEF Return
  <2>2. hpc = "none" /\ mutex = Free /\ ~running
    BY <1>3 DEF Return, MainAt, Positions, Quiet, Serving, Holders, Loop
  <2>3. Ending'
    BY <2>1, <2>2 DEF Terminate, registry, Ending, LibraryUsedRightly, CleanExit
  <2> QED
    BY <2>1, <2>3, TerminateKeeps
<1>4. CASE Sigint
  <2>1. CASE Terminate("killed") /\ UNCHANGED <<starts, dpc>>
    <3>1. Positions' /\ Holders' /\ Reading' /\ Telling' /\ Ending'
      BY <1>4, <2>1 DEF Sigint, Terminate, appVars, registry, winVars,
         Positions, Holders, Reading, Telling, Ignored, Ending,
         LibraryUsedRightly, CleanExit
    <3> QED
      BY <3>1
  <2>2. CASE MainOnly
    <3>1. Positions' /\ Reading' /\ Telling'
      BY <1>4, <2>2 DEF Sigint, MainOnly, vars, appVars, winVars, Positions,
         Quiet, Serving, Reading, Telling, Ignored
    <3> QED
      BY <2>2, <3>1, MainOnlyKeeps
  <2> QED
    BY <1>4, <2>1, <2>2 DEF Sigint
<1> QED
  BY <1>1, <1>2, <1>3, <1>4

-----------------------------------------------------------------------------
\* What SvcMain and svcInit report.
LEMMA ReportsKeep ==
  ASSUME ServiceInv,
         \/ RegisterService \/ LoadStops \/ ReportRunning
         \/ FillInStopped \/ TellStopped
  PROVE  ServiceInv'
<1> USE OnlyOwner DEF ServiceInv
<1>1. MainOnly
  BY DEF RegisterService, LoadStops, ReportRunning, FillInStopped, TellStopped
<1>2. Positions'
  BY DEF RegisterService, LoadStops, ReportRunning, FillInStopped, TellStopped,
         SvcAt, MainAt, MainOnly, vars, appVars, Positions, Quiet, Serving
<1>3. Reading'
  BY DEF RegisterService, LoadStops, ReportRunning, FillInStopped, TellStopped,
         SvcKeeps, SvcAt, MainAt, MainOnly, vars, Reading, Ignored, Serving
<1>4. Telling'
  <2>1. CASE RegisterService
    BY <2>1 DEF RegisterService, Report, Told, SvcKeeps, SvcAt, MainAt,
                MainOnly, vars, Telling
  <2>2. CASE LoadStops
    BY <2>2 DEF LoadStops, Report, Told, SvcKeeps, SvcAt, MainAt, MainOnly,
                vars, Telling
  <2>3. CASE ReportRunning
    BY <2>3 DEF ReportRunning, Report, Told, SvcKeeps, SvcAt, MainAt, MainOnly,
                vars, Telling, Reading, Serving
  <2>4. CASE FillInStopped
    BY <2>4 DEF FillInStopped, SvcKeeps, SvcAt, MainAt, MainOnly, vars, Telling
  <2>5. CASE TellStopped
    BY <2>5 DEF TellStopped, Told, SvcKeeps, SvcAt, MainAt, MainOnly, vars,
                Telling
  <2> QED
    BY <2>1, <2>2, <2>3, <2>4, <2>5
<1> QED
  BY <1>1, <1>2, <1>3, <1>4, MainOnlyKeeps

\* The ends of the process on Windows: the exception of a bad address, and the
\* return of the dispatcher, which may come before that of SvcMain.
LEMMA EndsKeep ==
  ASSUME ServiceInv, LoadThrows \/ DispatcherReturns
  PROVE  ServiceInv'
<1> USE OnlyOwner DEF ServiceInv
<1>1. CASE LoadThrows
  <2>1. /\ Terminate("uncaught exception")
        /\ UNCHANGED <<starts, daemonVars, winVars>>
    BY <1>1 DEF LoadThrows
  <2>2. Ending'
    BY <2>1 DEF Terminate, Ending, LibraryUsedRightly, CleanExit
  <2> QED
    BY <2>1, <2>2, TerminateKeeps
<1>2. CASE DispatcherReturns
  <2>1. Terminate("exit 0") /\ UNCHANGED <<starts, daemonVars, winVars>>
    BY <1>2 DEF DispatcherReturns
  <2>2. dpc \in {"return", "tell", "done"}
    BY <1>2 DEF DispatcherReturns, Telling
  <2>3. hpc = "none" /\ mutex = Free /\ ~running
    BY <2>2 DEF Positions, Quiet, Holders, Loop
  <2>4. Ending'
    BY <2>1, <2>3 DEF Terminate, registry, Ending, LibraryUsedRightly, CleanExit
  <2> QED
    BY <2>1, <2>4, TerminateKeeps
<1> QED
  BY <1>1, <1>2

\* SvcCtrlHandler, whatever svcInit is doing meanwhile.
LEMMA ControlKeeps ==
  ASSUME ServiceInv, Control \/ ControlNext
  PROVE  ServiceInv'
<1> USE OnlyOwner DEF ServiceInv, ControlNext, HandlerKeeps
<1>1. HandlerKeeps
  BY DEF Control, FillInPending, TellPending, Notify, ReadStatus, FillInAgain,
         TellAgain
<1>2. dpc' = dpc \/ (dpc = "wait" /\ dpc' = "stop")
  BY DEF Control, FillInPending, TellPending, Notify, ReadStatus, FillInAgain,
         TellAgain
<1>3. Positions' /\ Reading'
  BY <1>1, <1>2 DEF MainOnly, vars, appVars, Positions, Quiet, Serving, Reading,
                    Ignored
<1>4. starts' = starts /\ todo' = todo
  BY <1>1 DEF MainOnly, vars
<1>5. Telling'
  <2>1. CASE Control
    BY <1>4, <2>1 DEF Control, CtrlAt, Telling
  <2>2. CASE FillInPending \/ FillInAgain
    BY <1>4, <2>2 DEF FillInPending, FillInAgain, CtrlAt, Telling
  <2>3. CASE TellPending \/ TellAgain
    BY <1>4, <2>3 DEF TellPending, TellAgain, Told, CtrlAt, Telling
  <2>4. CASE Notify
    BY <1>4, <2>4 DEF Notify, CtrlAt, Telling
  <2>5. CASE ReadStatus
    BY <1>4, <2>5 DEF ReadStatus, CtrlAt, Telling
  <2> QED
    BY <2>1, <2>2, <2>3, <2>4, <2>5
<1> QED
  BY <1>1, <1>3, <1>5, MainOnlyKeeps

-----------------------------------------------------------------------------
\* The library while main waits for it, or for nothing.
LEMMA CallsKeep ==
  ASSUME ServiceInv, CallNext, UNCHANGED <<daemonVars, winVars>>
  PROVE  ServiceInv'
<1> USE OnlyOwner, MutexValues DEF ServiceInv
<1>1. CASE Join
  <2>1. hpc = "exited"
    BY <1>1 DEF Join, Positions, Quiet
  <2>2. /\ hpc' = "none" /\ pc' = [pc EXCEPT ![Owner] = "idle"]
        /\ UNCHANGED <<fate, running, mutex, starts>>
    BY <1>1, <2>1 DEF Join, registry
  <2>3. Positions'
    BY <1>1, <2>2 DEF Join, daemonVars, Positions, Quiet, Serving
  <2>4. Holders' /\ Ending'
    BY <1>1, <2>1, <2>2 DEF Join, Holders, Ending, Loop, LibraryUsedRightly,
                            CleanExit
  <2>5. Reading' /\ Telling'
    BY <2>2 DEF daemonVars, winVars, Reading, Telling, Ignored
  <2> QED
    BY <2>3, <2>4, <2>5
<1>2. CASE LockToAdd(Owner) \/ PushBack(Owner) \/ UnlockAdded(Owner)
  <2>1. UNCHANGED <<fate, running, hpc, starts>>
    BY <1>2 DEF LockToAdd, PushBack, UnlockAdded
  <2>2. Positions'
    BY <1>2, <2>1 DEF LockToAdd, PushBack, UnlockAdded, daemonVars, Positions
  <2>3. Holders'
    BY <1>2, <2>1 DEF LockToAdd, PushBack, UnlockAdded, CanLock, Positions,
                      Holders
  <2>4. Ending'
    BY <1>2, <2>1 DEF LockToAdd, PushBack, UnlockAdded, Ending,
                      LibraryUsedRightly, CleanExit
  <2>5. Reading' /\ Telling'
    BY <2>1 DEF daemonVars, winVars, Reading, Telling, Ignored
  <2> QED
    BY <2>2, <2>3, <2>4, <2>5
<1> QED
  BY <1>1, <1>2 DEF CallNext

\* No step of the handler thread makes it joinable or joins it.
LEMMA HandlerStep ==
  ASSUME HandlerNext
  PROVE  /\ fate = "up" /\ fate' \in {"up", "uncaught exception"}
         /\ hpc # "none" /\ hpc' # "none"
         /\ UNCHANGED <<pc, starts>>
BY DEF HandlerNext, HandlerAt, Terminate, appVars, Bind, SetRunning,
       CheckRunning, PollTimeout, Receive, QuerySection, TakeQuery, SkipSection,
       RequestDone, LockToMatch, MatchEntry, UnlockMatched, Send

LEMMA HandlerHolders ==
  ASSUME Holders, HandlerNext
  PROVE  Holders'
<1> USE MutexValues DEF Holders, HandlerAt, Loop
<1>1. CASE LockToMatch \/ MatchEntry \/ UnlockMatched
  BY <1>1, HandlerStep DEF LockToMatch, MatchEntry, UnlockMatched, CanLock,
                           registry
<1>2. CASE SetRunning
  <2>1. mutex' = mutex /\ hpc = "announce" /\ hpc' = "check"
    BY <1>2 DEF SetRunning, registry
  <2> QED
    BY <2>1, HandlerStep
<1>3. CASE Bind \/ CheckRunning \/ PollTimeout
  <2>1. /\ UNCHANGED <<running, mutex>>
        /\ hpc # "match"
        /\ hpc' \in Loop \/ ~running
    <3>1. CASE Bind
      <4>1. UNCHANGED <<running, mutex>>
        BY <1>3, <3>1 DEF Bind, Terminate, registry
      <4> QED
        BY <3>1, <4>1 DEF Bind
    <3>2. CASE CheckRunning \/ PollTimeout
      BY <3>2 DEF CheckRunning, PollTimeout, registry
    <3> QED
      BY <1>3, <3>1, <3>2
  <2> QED
    BY <2>1, HandlerStep
<1>4. CASE Receive \/ QuerySection \/ RequestDone \/ Send
  <2>1. UNCHANGED <<running, mutex>>
    BY <1>4 DEF Receive, QuerySection, RequestDone, Send, Terminate, registry
  <2>2. hpc # "match" /\ hpc \in Loop
    BY <1>4 DEF Receive, QuerySection, RequestDone, Send
  <2>3. hpc' \in Loop
    BY <1>4, <2>2 DEF Receive, QuerySection, TakeQuery, SkipSection,
                      RequestDone, Send, Terminate
  <2> QED
    BY <2>1, <2>2, <2>3, HandlerStep
<1> QED
  BY <1>1, <1>2, <1>3, <1>4 DEF HandlerNext

LEMMA LibraryKeeps ==
  ASSUME ServiceInv, Library
  PROVE  ServiceInv'
<1> USE OnlyOwner DEF ServiceInv
<1>1. UNCHANGED <<daemonVars, winVars>>
  BY DEF Library
<1>2. CASE HandlerNext
  <2>1. Positions'
    BY <1>1, <1>2, HandlerStep DEF daemonVars, Positions, Quiet
  <2>2. Reading' /\ Telling'
    BY <1>1, <1>2, HandlerStep DEF daemonVars, winVars, Reading, Telling, Ignored
  <2>3. Ending'
    BY <1>2, HandlerStep DEF Ending, LibraryUsedRightly, CleanExit
  <2> QED
    BY <1>2, <2>1, <2>2, <2>3, HandlerHolders
<1>3. CASE CallNext
  BY <1>1, <1>3, CallsKeep
<1>4. CASE Arrive \/ Gone
  <2>1. UNCHANGED <<fate, running, hpc, pc, mutex, starts>>
    BY <1>4 DEF Arrive, Gone, vars, appVars, registry
  <2>2. Positions' /\ Holders' /\ Ending'
    BY <1>1, <2>1 DEF daemonVars, Positions, Holders, Ending,
                      LibraryUsedRightly, CleanExit
  <2>3. Reading' /\ Telling'
    BY <1>1, <2>1 DEF daemonVars, winVars, Reading, Telling, Ignored
  <2> QED
    BY <2>2, <2>3
<1> QED
  BY <1>2, <1>3, <1>4 DEF Library, LibraryNext

LEMMA StutterKeeps ==
  ASSUME ServiceInv, UNCHANGED serviceVars
  PROVE  ServiceInv'
BY DEF ServiceInv, serviceVars, allVars, vars, appVars, registry, daemonVars,
       winVars, Positions, Holders, Reading, Telling, Ignored, Ending,
       LibraryUsedRightly, CleanExit

LEMMA NextServiceInv == ServiceInv /\ [ServiceNext]_serviceVars => ServiceInv'
<1> SUFFICES ASSUME ServiceInv, [ServiceNext]_serviceVars PROVE ServiceInv'
  OBVIOUS
<1>1. CASE Posix
  BY <1>1, LoadingKeeps, RunningKeeps, PosixKeeps DEF Posix, MainNext
<1>2. CASE Library
  BY <1>2, LibraryKeeps
<1>3. CASE SvcNext
  <2>1. CASE StartService
    BY <2>1, StartKeeps DEF StartService, SvcKeeps, SvcAt, winVars
  <2>2. CASE LoadThrows \/ DispatcherReturns
    BY <2>2, EndsKeep
  <2>3. CASE \/ RegisterService \/ LoadStops \/ ReportRunning
             \/ FillInStopped \/ TellStopped
    BY <2>3, ReportsKeep
  <2> QED
    BY <1>3, <2>1, <2>2, <2>3 DEF SvcNext
<1>4. CASE Shared
  BY <1>4, LoadingKeeps, RunningKeeps DEF Shared
<1>5. CASE Control \/ ControlNext
  BY <1>5, ControlKeeps
<1>6. CASE Dispatching \/ UNCHANGED serviceVars
  BY <1>6, StutterKeeps DEF Dispatching
<1> QED
  BY <1>1, <1>2, <1>3, <1>4, <1>5, <1>6 DEF ServiceNext

LEMMA ServiceInvHolds == ServiceSpec => []ServiceInv
BY InitServiceInv, NextServiceInv, PTL DEF ServiceSpec

-----------------------------------------------------------------------------
\* No order of signals, controls, early wake-ups and returns makes main or
\* svcInit start a thread over another one or join one that is not there.
THEOREM ListenerIsUsedRightly == ServiceSpec => []LibraryUsedRightly
<1>1. ServiceInv => LibraryUsedRightly
  BY DEF ServiceInv, Ending
<1> QED
  BY <1>1, ServiceInvHolds, PTL

\* When the process ends with 0, by main's return or the dispatcher's, the
\* handler thread is gone and nobody holds the mutex.
THEOREM ExitIsClean == ServiceSpec => []CleanExit
<1>1. ServiceInv => CleanExit
  BY DEF ServiceInv, Ending
<1> QED
  BY <1>1, ServiceInvHolds, PTL

\* One section that cannot be used keeps the listener from being started.
THEOREM FilesCountAsAWhole == ServiceSpec => []NoListenerInPart
<1>1. ServiceInv => NoListenerInPart
  BY DEF ServiceInv, Positions, Quiet, Serving, Reading, Usable,
         NoListenerInPart
<1> QED
  BY <1>1, ServiceInvHolds, PTL

\* The manager hears RUNNING after the listener was started with all the files
\* say, and STOPPED after the handler thread is gone, although both threads
\* write the status they report.
THEOREM ReportsAreTrue == ServiceSpec => []StatusIsTrue
<1>1. ServiceInv => StatusIsTrue
  BY DEF ServiceInv, Positions, Quiet, Holders, Loop, Telling, StatusIsTrue
<1> QED
  BY <1>1, ServiceInvHolds, PTL

-----------------------------------------------------------------------------
\* For AnswersAreComplete the registry is compared with the files: it holds
\* what main has taken on so far, except for an entry still being added.
Taken == {s \in folder : ~Ignored(s) /\ s \notin todo}
Adding == pc[Owner] \in {"lock", "push"}

RegistryInv ==
  /\ folder \subseteq Setting /\ IsFiniteSet(folder)
  /\ services \in Seq(Entry) /\ arg \in [Threads -> Entry \cup {Nothing}]
  /\ Adding => arg[Owner] \in Entry
  /\ Cardinality(Taken) = Len(services) + (IF Adding THEN 1 ELSE 0)
  /\ {s.entry.name : s \in Taken}
       = {services[j].name : j \in 1..Len(services)}
           \cup (IF Adding THEN {arg[Owner].name} ELSE {})

\* Nothing is added any more once the listener was started, so every reply
\* shows all of the registry.
SentInv ==
  /\ \E S : sent \in Seq(S)
  /\ hpc \in {"match", "send"} => upto = Len(services)
  /\ \A k \in DOMAIN sent : sent[k].upto = Len(services)
  /\ starts = 1 => todo = {}
  /\ sent # <<>> => starts = 1

\* The steps that neither touch the registry nor reply.
Bystander ==
  /\ UNCHANGED <<folder, todo, services, arg, starts, sent, upto>>
  /\ Adding' = Adding
  /\ hpc' \in {"match", "send"} => hpc \in {"match", "send"}

\* What RegistryInv looks at.
LEMMA RegistryFrame ==
  ASSUME RegistryInv, UNCHANGED <<folder, services, arg>>,
         Taken' = Taken, Adding' = Adding
  PROVE  RegistryInv'
<1>1. folder' \subseteq Setting /\ IsFiniteSet(folder')
  BY Zenon DEF RegistryInv
<1>2. services' \in Seq(Entry) /\ arg' \in [Threads -> Entry \cup {Nothing}]
  BY Zenon DEF RegistryInv
<1>3. Adding' => arg'[Owner] \in Entry
  BY Zenon DEF RegistryInv
<1>4. Cardinality(Taken') = Len(services') + (IF Adding' THEN 1 ELSE 0)
  BY Zenon DEF RegistryInv
<1>5. {s.entry.name : s \in Taken'}
        = {services'[j].name : j \in 1..Len(services')}
             \cup (IF Adding' THEN {arg'[Owner].name} ELSE {})
  BY Zenon DEF RegistryInv
<1> QED
  BY <1>1, <1>2, <1>3, <1>4, <1>5, Zenon DEF RegistryInv

LEMMA BystanderKeeps ==
  ASSUME RegistryInv, SentInv, Bystander
  PROVE  RegistryInv' /\ SentInv'
<1>1. Taken' = Taken
  BY DEF Bystander, Taken, Ignored
<1>2. RegistryInv'
  BY <1>1, RegistryFrame DEF Bystander
<1>3. SentInv'
  BY DEF SentInv, Bystander
<1> QED
  BY <1>2, <1>3

LEMMA InitRegistryInv == ServiceInit => RegistryInv /\ SentInv
<1> SUFFICES ASSUME ServiceInit PROVE RegistryInv /\ SentInv
  OBVIOUS
<1> USE OnlyOwner DEF ServiceInit, DaemonInit, Init
<1>1. Taken = {} /\ Cardinality(Taken) = 0 /\ ~Adding
  BY FS_EmptySet DEF Taken, Adding
<1>2. services \in Seq(Entry) /\ Len(services) = 0
  BY EmptySeq
<1>3. sent \in Seq({})
  BY EmptySeq
<1>4. RegistryInv
  BY <1>1, <1>2, DaemonAssumption DEF RegistryInv
<1>5. SentInv
  BY <1>2, <1>3 DEF SentInv
<1> QED
  BY <1>4, <1>5

\* A section that is skipped is in neither.
LEMMA SkipKeepsRegistry ==
  ASSUME ServiceInv, RegistryInv, SentInv, NEW s \in folder, SkipIgnored(s)
  PROVE  RegistryInv' /\ SentInv'
<1>1. UNCHANGED <<folder, pc, arg, hpc, services, sent, upto, starts>>
  BY DEF SkipIgnored, MainOnly, vars, appVars, registry, requestVars, history
<1>2. Taken' = Taken /\ Adding' = Adding
  BY <1>1 DEF SkipIgnored, Taken, Ignored, Adding
<1>3. RegistryInv'
  BY <1>1, <1>2, RegistryFrame
<1>4. starts = 0
  BY DEF SkipIgnored, MainAt, ServiceInv, Reading
<1> QED
  BY <1>1, <1>3, <1>4 DEF SentInv

\* One that is taken on is on its way into the registry, under its own name.
LEMMA LoadKeepsRegistry ==
  ASSUME ServiceInv, RegistryInv, SentInv, NEW s \in folder, Load(s)
  PROVE  RegistryInv' /\ SentInv'
<1> DEFINE e == Completed(EntryOf(s))
<1>1. /\ UNCHANGED <<folder, hpc, services, sent, upto, starts>>
      /\ pc' = [pc EXCEPT ![Owner] = "lock"] /\ arg' = [arg EXCEPT ![Owner] = e]
      /\ pc[Owner] = "idle" /\ todo' = todo \ {s} /\ s \in todo /\ ~Ignored(s)
  BY DEF Load, MainAt, AddService, registry, requestVars, history
<1>2. e \in Entry /\ e.name = s.entry.name
  <2>1. s.entry \in Entry /\ s.port \in Int
    BY DEF RegistryInv, Setting
  <2>2. s.port % 65536 \in Word
    BY <2>1, WordFits
  <2>3. EntryOf(s) \in Entry /\ EntryOf(s).name = s.entry.name
    BY <2>1, <2>2 DEF EntryOf, Entry
  <2>4. HostName \in Strings
    BY ListenerAssumption
  <2> QED
    BY <2>3, <2>4 DEF Completed, Entry
<1>3. Adding' /\ ~Adding /\ arg'[Owner] = e
  BY <1>1, OnlyOwner DEF Adding, ServiceInv, Positions, RegistryInv
<1>4. Taken' = Taken \cup {s} /\ s \notin Taken
  BY <1>1 DEF Taken, Ignored
<1>5. Cardinality(Taken') = Cardinality(Taken) + 1
  <2>1. IsFiniteSet(Taken)
    BY FS_Subset DEF RegistryInv, Taken
  <2> QED
    BY <1>4, <2>1, FS_AddElement
<1>6. {x.entry.name : x \in Taken'}
        = {x.entry.name : x \in Taken} \cup {s.entry.name}
  BY <1>4
<1> HIDE DEF e
<1>7. arg' \in [Threads -> Entry \cup {Nothing}]
  BY <1>1, <1>2 DEF RegistryInv
<1>8. Cardinality(Taken') = Len(services') + 1
  BY <1>1, <1>3, <1>5 DEF RegistryInv
<1>9. {x.entry.name : x \in Taken'}
        = {services'[j].name : j \in 1..Len(services')} \cup {arg'[Owner].name}
  BY <1>1, <1>2, <1>3, <1>6 DEF RegistryInv
<1>10. RegistryInv'
  <2>1. folder' \subseteq Setting /\ IsFiniteSet(folder')
        /\ services' \in Seq(Entry)
    BY <1>1, Zenon DEF RegistryInv
  <2>2. Adding' => arg'[Owner] \in Entry
    BY <1>2, <1>3, Zenon
  <2>3. Cardinality(Taken') = Len(services') + (IF Adding' THEN 1 ELSE 0)
    BY <1>3, <1>8, Zenon
  <2>4. {x.entry.name : x \in Taken'}
          = {services'[j].name : j \in 1..Len(services')}
               \cup (IF Adding' THEN {arg'[Owner].name} ELSE {})
    BY <1>3, <1>9, Zenon
  <2> QED
    BY <1>7, <2>1, <2>2, <2>3, <2>4, Zenon DEF RegistryInv
<1>11. starts = 0
  BY DEF Load, MainAt, ServiceInv, Reading
<1> QED
  BY <1>1, <1>10, <1>11 DEF SentInv

\* push_back: the entry on its way arrives.
LEMMA PushKeepsRegistry ==
  ASSUME ServiceInv, RegistryInv, SentInv, PushBack(Owner), UNCHANGED daemonVars
  PROVE  RegistryInv' /\ SentInv'
<1> DEFINE n == Len(services)
           e == arg[Owner]
<1>1. /\ UNCHANGED <<folder, todo, hpc, sent, upto, starts>>
      /\ pc[Owner] = "push" /\ pc' = [pc EXCEPT ![Owner] = "unlock"]
      /\ arg' = [arg EXCEPT ![Owner] = Nothing]
      /\ services' = Append(services, e)
  BY DEF PushBack, requestVars, history, daemonVars
<1>2. Adding /\ ~Adding' /\ Taken' = Taken
  BY <1>1, OnlyOwner DEF Adding, Taken, Ignored, ServiceInv, Positions
<1>3. e \in Entry /\ services \in Seq(Entry) /\ n \in Nat
  BY <1>2 DEF RegistryInv
<1>4. /\ services' \in Seq(Entry) /\ Len(services') = n + 1
      /\ services'[n + 1] = e
      /\ \A j \in 1..n : services'[j] = services[j]
  BY <1>1, <1>3
<1> HIDE DEF n, e
<1>5. {services'[j].name : j \in 1..n + 1}
        = {services[j].name : j \in 1..n} \cup {e.name}
  <2>1. 1..n + 1 = (1..n) \cup {n + 1}
    BY <1>3
  <2>2. {services'[j].name : j \in 1..n + 1}
          = {services'[j].name : j \in 1..n} \cup {services'[n + 1].name}
    BY <2>1
  <2> QED
    BY <1>4, <2>2
<1>6. arg' \in [Threads -> Entry \cup {Nothing}]
  BY <1>1 DEF RegistryInv
<1>7. Cardinality(Taken) = n + 1
  BY <1>2 DEF RegistryInv, n
<1>8. {x.entry.name : x \in Taken}
        = {services[j].name : j \in 1..n} \cup {e.name}
  BY <1>2 DEF RegistryInv, n, e
<1>9. RegistryInv'
  <2>1. {x.entry.name : x \in Taken'}
          = {services'[j].name : j \in 1..Len(services')}
    BY <1>2, <1>4, <1>5, <1>8
  <2>2. Cardinality(Taken') = Len(services')
    BY <1>2, <1>4, <1>7
  <2>3. folder' \subseteq Setting /\ IsFiniteSet(folder')
    BY <1>1 DEF RegistryInv
  <2>4. Len(services') \in Nat
    BY <1>3, <1>4
  <2>5. services' \in Seq(Entry)
    BY <1>4
  <2>6. Cardinality(Taken)' = Len(services') + (IF Adding' THEN 1 ELSE 0)
    BY <1>2, <2>2, <2>4
  <2>7. {x.entry.name : x \in Taken'}
          = {services'[j].name : j \in 1..Len(services')}
              \cup (IF Adding' THEN {arg'[Owner].name} ELSE {})
    BY <1>2, <2>1
  <2> QED
    BY <1>2, <1>6, <2>3, <2>5, <2>6, <2>7 DEF RegistryInv
<1>10. starts = 0 /\ hpc = "none"
  BY <1>1 DEF ServiceInv, Positions, Quiet, Reading
<1>11. SentInv'
  BY <1>1, <1>10 DEF SentInv
<1> QED
  BY <1>9, <1>11

\* The listener is started when all files have been read.
LEMMA StartKeepsRegistry ==
  ASSUME ServiceInv, RegistryInv, SentInv, MainAt("start"), StartListener,
         UNCHANGED <<folder, todo>>
  PROVE  RegistryInv' /\ SentInv'
<1>1. starts' = 1 /\ todo = {}
  <2>1. starts = 0 /\ todo = {}
    BY DEF MainAt, ServiceInv, Reading
  <2>2. starts' = starts + 1
    BY DEF StartListener
  <2> QED
    BY <2>1, <2>2
<1>2. UNCHANGED <<pc, arg, services, sent, upto>> /\ hpc' \in {"none", "bind"}
  <2>1. hpc = "none"
    BY DEF MainAt, ServiceInv, Positions, Quiet
  <2> QED
    BY <2>1 DEF StartListener, appVars, registry, requestVars, history
<1>3. Taken' = Taken /\ Adding' = Adding
  BY <1>2 DEF Taken, Ignored, Adding
<1>4. RegistryInv'
  BY <1>2, <1>3 DEF RegistryInv
<1>5. SentInv'
  BY <1>1, <1>2 DEF SentInv
<1> QED
  BY <1>4, <1>5

\* The handler thread looks at the registry when it has the mutex, and what it
\* sends is of that size.
LEMMA HandlerKeepsRegistry ==
  ASSUME ServiceInv, RegistryInv, SentInv, HandlerNext, UNCHANGED daemonVars
  PROVE  RegistryInv' /\ SentInv'
<1> USE DEF registry, appVars, requestVars, history, daemonVars
<1>1. UNCHANGED <<folder, todo, services, pc, arg, starts>>
  BY DEF HandlerNext, Bind, SetRunning, CheckRunning, PollTimeout, Receive,
         QuerySection, RequestDone, LockToMatch, MatchEntry, UnlockMatched,
         Send, Terminate
<1>2. Taken' = Taken /\ Adding' = Adding
  BY <1>1 DEF Taken, Ignored, Adding
<1>3. CASE LockToMatch
  <2>1. UNCHANGED sent /\ upto' = Len(services)
    BY <1>3 DEF LockToMatch
  <2> QED
    BY <1>1, <1>2, <2>1 DEF RegistryInv, SentInv
<1>4. CASE Send /\ sent' # sent
  <2>1. /\ sent' = Append(sent, Reply) /\ hpc' = "query"
        /\ upto = Len(services)
    BY <1>4 DEF Send, Terminate, HandlerAt, SentInv
  <2>2. Reply.upto = Len(services)
    BY <2>1 DEF Reply
  <2>3. PICK S : sent \in Seq(S)
    BY DEF SentInv
  <2>4. sent \in Seq(S \cup {Reply})
    <3>1. S \subseteq S \cup {Reply}
      OBVIOUS
    <3> QED
      BY <2>3, <3>1, SeqMonotonic
  <2>5. /\ sent' \in Seq(S \cup {Reply})
        /\ \A k \in DOMAIN sent' : sent'[k].upto = Len(services)
    <3> HIDE DEF Reply
    <3> QED
      BY <2>1, <2>2, <2>4 DEF SentInv
  <2>6. starts = 1
    BY <1>4 DEF Send, HandlerAt, ServiceInv, Positions, Reading
  <2>7. SentInv'
    BY <1>1, <2>1, <2>5, <2>6 DEF SentInv
  <2> QED
    BY <1>1, <1>2, <2>7 DEF RegistryInv
<1>5. CASE ~LockToMatch /\ sent' = sent
  <2>1. hpc' \in {"match", "send"} =>
           hpc \in {"match", "send"} /\ upto' = upto
    BY <1>5 DEF HandlerNext, HandlerAt, Bind, SetRunning, CheckRunning,
       PollTimeout, Receive, QuerySection, TakeQuery, SkipSection, RequestDone,
       MatchEntry, UnlockMatched, Send, Terminate
  <2> QED
    BY <1>1, <1>2, <1>5, <2>1 DEF RegistryInv, SentInv
<1>6. CASE ~Send /\ ~LockToMatch
  <2>1. sent' = sent
    BY <1>6 DEF HandlerNext, Bind, SetRunning, CheckRunning, PollTimeout,
       Receive, QuerySection, RequestDone, MatchEntry, UnlockMatched, Terminate
  <2> QED
    BY <1>5, <1>6, <2>1
<1> QED
  <2>1. CASE Send
    <3>1. ~LockToMatch
      BY <2>1 DEF Send, LockToMatch, HandlerAt
    <3> QED
      BY <1>4, <1>5, <2>1, <3>1
  <2> QED
    BY <1>3, <1>6, <2>1

\* The other steps of the library leave the registry and the replies alone.
LEMMA LibraryStandsBy ==
  ASSUME ServiceInv, UNCHANGED daemonVars,
         \/ LockToAdd(Owner) \/ UnlockAdded(Owner) \/ Join \/ Arrive \/ Gone
  PROVE  Bystander
<1> USE OnlyOwner DEF ServiceInv, registry, appVars, requestVars, history,
                      daemonVars, Bystander, Adding, Positions
<1>1. CASE LockToAdd(Owner) \/ UnlockAdded(Owner)
  <2>1. UNCHANGED <<folder, todo, services, arg, starts, sent, upto, hpc>>
    BY <1>1 DEF LockToAdd, UnlockAdded
  <2>2. CASE LockToAdd(Owner)
    BY <2>1, <2>2 DEF LockToAdd
  <2>3. CASE UnlockAdded(Owner)
    BY <2>1, <2>3 DEF UnlockAdded
  <2> QED
    BY <1>1, <2>2, <2>3
<1>2. CASE Join
  <2>1. hpc = "exited"
    BY <1>2 DEF Join, Quiet
  <2>2. /\ UNCHANGED <<folder, todo, services, arg, starts, sent, upto>>
        /\ hpc' = "none" /\ pc[Owner] = "join"
        /\ pc' = [pc EXCEPT ![Owner] = "idle"]
    BY <1>2, <2>1 DEF Join
  <2> QED
    BY <2>2
<1>3. CASE Arrive \/ Gone
  BY <1>3 DEF Arrive, Gone, vars
<1> QED
  BY <1>1, <1>2, <1>3

\* So do those outside it, but for loading and starting.
LEMMA OutsideStandsBy ==
  ASSUME ServiceInv, UNCHANGED <<folder, todo>>,
         \/ MainOnly
         \/ Stop
         \/ UNCHANGED starts /\ \E why : Terminate(why)
  PROVE  Bystander
<1> USE OnlyOwner DEF ServiceInv, registry, appVars, requestVars, history,
                      daemonVars, Bystander, Adding, Positions
<1>1. CASE MainOnly
  BY <1>1 DEF MainOnly, vars
<1>2. CASE Stop
  BY <1>2 DEF Stop, MainAt, StopListener
<1>3. CASE UNCHANGED starts /\ \E why : Terminate(why)
  BY <1>3 DEF Terminate
<1> QED
  BY <1>1, <1>2, <1>3

LEMMA NextRegistryInv ==
  ServiceInv /\ RegistryInv /\ SentInv /\ [ServiceNext]_serviceVars
    => RegistryInv' /\ SentInv'
<1> SUFFICES ASSUME ServiceInv, RegistryInv, SentInv, [ServiceNext]_serviceVars
             PROVE  RegistryInv' /\ SentInv'
  OBVIOUS
<1>1. ASSUME NEW s \in folder, SkipIgnored(s) \/ Load(s)
      PROVE  RegistryInv' /\ SentInv'
  BY <1>1, SkipKeepsRegistry, LoadKeepsRegistry
<1>2. CASE Start \/ StartService
  BY <1>2, StartKeepsRegistry DEF Start, StartService, SvcAt, SvcKeeps, MainAt
<1>3. CASE Library
  <2>1. UNCHANGED daemonVars
    BY <1>3 DEF Library
  <2>2. CASE HandlerNext
    BY <2>1, <2>2, HandlerKeepsRegistry
  <2>3. CASE PushBack(Owner)
    BY <2>1, <2>3, PushKeepsRegistry
  <2>4. CASE LockToAdd(Owner) \/ UnlockAdded(Owner) \/ Join \/ Arrive \/ Gone
    BY <2>1, <2>4, LibraryStandsBy, BystanderKeeps
  <2> QED
    BY <1>3, <2>2, <2>3, <2>4 DEF Library, LibraryNext, CallNext
<1>4. CASE UNCHANGED <<folder, todo>> /\ MainOnly
  BY <1>4, OutsideStandsBy, BystanderKeeps
<1>5. CASE UNCHANGED <<folder, todo>> /\ UNCHANGED starts /\ \E why : Terminate(why)
  BY <1>5, OutsideStandsBy, BystanderKeeps
<1>6. CASE Stop
  BY <1>6, OutsideStandsBy, BystanderKeeps DEF Stop
<1>7. CASE InstallHandler \/ Announce \/ Wait \/ WakeUp
  BY <1>4, <1>7 DEF InstallHandler, Announce, Wait, WakeUp
<1>8. CASE LoadFails \/ Return \/ Sigint
  BY <1>4, <1>5, <1>8 DEF LoadFails, Return, Sigint, daemonVars
<1>9. CASE LoadThrows \/ DispatcherReturns
  BY <1>5, <1>9 DEF LoadThrows, DispatcherReturns, daemonVars
<1>10. CASE \/ RegisterService \/ LoadStops \/ ReportRunning \/ FillInStopped
            \/ TellStopped \/ Control \/ ControlNext
  BY <1>4, <1>10 DEF RegisterService, LoadStops, ReportRunning, FillInStopped,
     TellStopped, SvcKeeps, Control, ControlNext, FillInPending, TellPending,
     Notify, ReadStatus, FillInAgain, TellAgain, HandlerKeeps
<1>11. CASE Dispatching \/ UNCHANGED serviceVars
  BY <1>4, <1>11 DEF Dispatching, serviceVars, allVars, daemonVars, MainOnly
<1> QED
  BY <1>1, <1>2, <1>3, <1>6, <1>7, <1>8, <1>9, <1>10, <1>11
     DEF ServiceNext, Posix, MainNext, SvcNext, Shared

\* Whoever is answered is told of every service the files hold, by number and
\* by name: the listener is started behind the last of them, and nothing is
\* added once it was.
THEOREM RepliesAreComplete == ServiceSpec => []AnswersAreComplete
<1>1. ServiceInv /\ RegistryInv /\ SentInv => AnswersAreComplete
  <2>1. SUFFICES ASSUME ServiceInv, RegistryInv, SentInv, NEW k \in DOMAIN sent
                 PROVE  /\ sent[k].upto = Cardinality({s \in folder : ~Ignored(s)})
                        /\ {services[j].name : j \in 1..sent[k].upto}
                             = {s.entry.name : s \in {x \in folder : ~Ignored(x)}}
    BY DEF AnswersAreComplete
  <2>2. sent # <<>>
    BY <2>1, EmptySeq
  <2>3. starts = 1 /\ todo = {}
    BY <2>1, <2>2 DEF SentInv
  <2>4. ~Adding
    BY <2>1, <2>3 DEF ServiceInv, Positions, Reading, Adding
  <2>5. Taken = {s \in folder : ~Ignored(s)}
    BY <2>3 DEF Taken
  <2>6. services \in Seq(Entry) /\ Len(services) \in Nat
    BY <2>1 DEF RegistryInv
  <2>7. sent[k].upto = Len(services)
    BY <2>1 DEF SentInv
  <2>8. sent[k].upto = Cardinality(Taken)
    BY <2>1, <2>4, <2>6, <2>7 DEF RegistryInv
  <2>9. {s.entry.name : s \in Taken} = {services[j].name : j \in 1..sent[k].upto}
    BY <2>1, <2>4, <2>7 DEF RegistryInv
  <2> QED
    BY <2>5, <2>8, <2>9
<1> QED
  BY <1>1, ServiceInvHolds, InitRegistryInv, NextRegistryInv, PTL DEF ServiceSpec

-----------------------------------------------------------------------------
\* What the services directory holds.
FolderGiven == folder \in Folders

\* The files do not change while they are read.
LEMMA FolderStays == [ServiceNext]_serviceVars => UNCHANGED folder
BY DEF ServiceNext, Posix, Library, SvcNext, Shared, Control, ControlNext,
       Dispatching, serviceVars, allVars, daemonVars, MainNext, SkipIgnored, Load,
       LoadFails, InstallHandler, Start, Announce, Wait, WakeUp, Stop, Return,
       Sigint, RegisterService, LoadThrows, LoadStops, StartService,
       ReportRunning, FillInStopped, TellStopped, DispatcherReturns, SvcKeeps,
       HandlerKeeps, FillInPending, TellPending, Notify, ReadStatus, FillInAgain,
       TellAgain

\* main and svcInit call the library as any application does.
LEMMA MainIsOwner ==
  ASSUME FolderGiven,
         \/ \E s \in folder : Load(s)
         \/ Start \/ StartService \/ Stop
  PROVE  Next
<1>1. ASSUME NEW s \in folder, Load(s) PROVE Next
  <2>1. AddService(Owner, EntryOf(s)) /\ EntryOf(s) \in Offered
    BY <1>1, DaemonAssumption DEF Load, FolderGiven
  <2> QED
    BY <2>1, OnlyOwner DEF Next, AdderNext
<1>2. CASE Start \/ StartService \/ Stop
  BY <1>2 DEF Start, StartService, Stop, Next, OwnerNext
<1> QED
  BY <1>1, <1>2

\* Where main returns, throws or is killed, the process ends for the library.
LEMMA MainCanEnd ==
  ASSUME \/ LoadFails \/ Return \/ Sigint \/ LoadThrows \/ DispatcherReturns
  PROVE  End \/ UNCHANGED vars
<1>1. ASSUME NEW why \in {"exit 0", "exit 1", "killed", "uncaught exception"},
             fate = "up", Terminate(why), UNCHANGED starts
      PROVE  End
  BY <1>1, MainEndingsAssumption DEF End
<1>2. CASE LoadFails
  BY <1>1, <1>2 DEF LoadFails, MainAt
<1>3. CASE Return
  BY <1>1, <1>3 DEF Return, MainAt
<1>4. CASE Sigint
  BY <1>1, <1>4 DEF Sigint, MainOnly
<1>5. CASE LoadThrows
  BY <1>1, <1>5 DEF LoadThrows, SvcAt, MainAt
<1>6. CASE DispatcherReturns
  BY <1>1, <1>6 DEF DispatcherReturns, CtrlAt
<1> QED
  BY <1>2, <1>3, <1>4, <1>5, <1>6

\* The steps of main, svcInit, SvcMain and SvcCtrlHandler between the calls.
LEMMA MainCanWait ==
  ASSUME \/ \E s \in folder : SkipIgnored(s)
         \/ InstallHandler \/ Announce \/ Wait \/ WakeUp
         \/ RegisterService \/ LoadStops \/ ReportRunning \/ FillInStopped
         \/ TellStopped \/ Control \/ ControlNext \/ Dispatching
  PROVE  UNCHANGED vars
BY DEF SkipIgnored, InstallHandler, Announce, Wait, WakeUp, RegisterService,
       LoadStops, ReportRunning, FillInStopped, TellStopped, Control, ControlNext,
       Dispatching, HandlerKeeps, FillInPending, TellPending, Notify, ReadStatus,
       FillInAgain, TellAgain, MainOnly, serviceVars, allVars

LEMMA ServiceStepIsStep ==
  FolderGiven /\ [ServiceNext]_serviceVars => [Next]_vars
<1> SUFFICES ASSUME FolderGiven, [ServiceNext]_serviceVars
             PROVE  [Next]_vars
  OBVIOUS
<1>1. CASE Library
  BY <1>1, OnlyOwner
     DEF Library, LibraryNext, CallNext, Next, AdderNext, OwnerNext
<1>2. CASE \/ \E s \in folder : Load(s)
           \/ Start \/ StartService \/ Stop
  BY <1>2, MainIsOwner
<1>3. CASE LoadFails \/ Return \/ Sigint \/ LoadThrows \/ DispatcherReturns
  BY <1>3, MainCanEnd DEF Next
<1>4. CASE \/ \E s \in folder : SkipIgnored(s)
           \/ InstallHandler \/ Announce \/ Wait \/ WakeUp
           \/ RegisterService \/ LoadStops \/ ReportRunning \/ FillInStopped
           \/ TellStopped \/ Control \/ ControlNext \/ Dispatching
  BY <1>4, MainCanWait
<1>5. CASE UNCHANGED serviceVars
  BY <1>5 DEF serviceVars, allVars
<1> QED
  BY <1>1, <1>2, <1>3, <1>4, <1>5
     DEF ServiceNext, Posix, MainNext, SvcNext, Shared

\* The daemon is an application of the library as Listener describes them: each
\* step of main, of svcInit and SvcMain, and of the control handler is a call of
\* the library, the end of the process, or none of its business.
THEOREM DaemonIsApplication == ServiceSpec => Spec
<1>1. ServiceInit => Init /\ FolderGiven
  BY DEF ServiceInit, DaemonInit, FolderGiven
<1>2. FolderGiven /\ [ServiceNext]_serviceVars => FolderGiven'
  BY FolderStays DEF FolderGiven
<1> QED
  BY <1>1, <1>2, ServiceStepIsStep, PTL DEF ServiceSpec, Spec

\* So what holds for the listener in every application holds in the daemon.
THEOREM DaemonListensSafely ==
  ServiceSpec => [](/\ TypeOK /\ RegistryExclusive /\ FlagTracksHandler
                    /\ RecordsFilledIn /\ AtMostOneReplyPerQuery)
BY DaemonIsApplication, TypeCorrect, MutualExclusion, FlagIsReliable,
   RecordsAreFilledIn, OneReplyPerQuery, PTL

\* On link the daemon's replies are exact pictures of the registry, and of all
\* that its service files hold: the promise of Registry from file to wire.  A
\* client reads back those that fit its buffer, exactly if no IPv6 text that a
\* file gave them has more than 255 bytes (RepliesAreRead).
THEOREM DaemonKeepsPromise ==
  ASSUME OnLink
  PROVE  ServiceSpec => KeepsPromise /\ [](RepliesAreRead /\ AnswersAreComplete)
BY DaemonIsApplication, ListenerKeepsPromise, RepliesAreReadBack,
   RepliesAreComplete, PTL

=============================================================================
