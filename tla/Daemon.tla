------------------------------- MODULE Daemon -------------------------------
(***************************************************************************)
(* The daemon, daemon/nyansd_daemon.cpp on POSIX systems: main loads the   *)
(* service files, installs the SIGINT handler, starts the listener, waits  *)
(* on a condition variable, stops the listener and returns.                *)
(*                                                                         *)
(* main is the only application thread: it is Owner, and its calls are the *)
(* actions of Listener.                                                    *)
(***************************************************************************)
EXTENDS Listener

CONSTANTS
  Folders,     \* what the services directory may hold, as sets of sections
  MaxSignals   \* bound of the checked instance

\* What a section says, as INIReader hands it out: port is the number before
\* it is cut to 16 bits, a negative one, too; known whether the protocol is one
\* of the three, and numeric whether the IPv4 text can be converted.
Setting == [entry : Entry, port : Int, known : BOOLEAN, numeric : BOOLEAN]

\* The entry main passes to addService: sv.port is a uint16_t.
EntryOf(s) == [s.entry EXCEPT !.port = s.port % 65536]

ASSUME DaemonAssumption ==
  /\ Adders = {}
  /\ \A f \in Folders :
        /\ f \subseteq Setting /\ IsFiniteSet(f)
        /\ \A s \in f : EntryOf(s) \in Offered
  /\ MaxSignals \in Nat

\* main returns 0 or 1, an exception leaves it, or a SIGINT finds no handler.
ASSUME MainEndingsAssumption ==
  {"exit 0", "exit 1", "killed", "uncaught exception"} \subseteq Endings

VARIABLES
  dpc,      \* control state of main
  folder,   \* the sections of all service files
  todo,     \* sections not read yet
  signals   \* history: SIGINTs delivered so far

daemonVars == <<dpc, folder, todo, signals>>
allVars == <<vars, daemonVars>>

DaemonInit ==
  /\ Init
  /\ dpc = "load" /\ folder \in Folders /\ todo = folder /\ signals = 0

\* main is between two calls of the library.
MainAt(p) == dpc = p /\ fate = "up" /\ pc[Owner] = "idle"

MainOnly == UNCHANGED vars

-----------------------------------------------------------------------------
\* Loading.

Ignored(s) == s.entry.name = Empty \/ ~s.known

\* No name or no protocol: the section is skipped.
SkipIgnored(s) ==
  /\ MainAt("load") /\ s \in todo
  /\ Ignored(s)
  /\ todo' = todo \ {s}
  /\ MainOnly /\ UNCHANGED <<dpc, folder, signals>>

Load(s) ==
  /\ MainAt("load") /\ s \in todo
  /\ ~Ignored(s) /\ s.numeric
  /\ AddService(Owner, EntryOf(s))
  /\ todo' = todo \ {s}
  /\ UNCHANGED <<dpc, folder, signals>>

\* Slip: continue where the code returns 1.
LoadSkipsUnusable ==
  /\ MainAt("load")
  /\ \E s \in todo :
        /\ ~Ignored(s) /\ ~(s.numeric /\ ValidEntry(EntryOf(s)))
        /\ todo' = todo \ {s}
  /\ MainOnly /\ UNCHANGED <<dpc, folder, signals>>

\* An address that is no number throws, an entry that addService refuses makes
\* main return 1; a file that does not parse and a missing directory do, too.
LoadFails ==
  /\ MainAt("load")
  /\ \/ /\ \E s \in todo : ~Ignored(s) /\ ~s.numeric
        /\ Terminate("uncaught exception")
     \/ /\ \E s \in todo : ~Ignored(s) /\ s.numeric /\ ~ValidEntry(EntryOf(s))
        /\ Terminate("exit 1")
     \/ todo # {} /\ Terminate("exit 1")
  /\ UNCHANGED <<starts, daemonVars>>

\* Slip: the listener is started while files are still being read.
LoadedInPart == TRUE

Loaded == todo = {}

\* std::signal(SIGINT, signal_handler)
InstallHandler ==
  /\ MainAt("load") /\ Loaded
  /\ dpc' = "start"
  /\ MainOnly /\ UNCHANGED <<folder, todo, signals>>

-----------------------------------------------------------------------------
\* Running.

\* Slip: the listener is not started.
StartForgotten ==
  /\ MainAt("start")
  /\ MainOnly
  /\ dpc' = "announce"
  /\ UNCHANGED <<folder, todo, signals>>

Start ==
  /\ MainAt("start")
  /\ StartListener
  /\ dpc' = "announce"
  /\ UNCHANGED <<folder, todo, signals>>

\* "Running... terminate with SIGINT (Ctrl+c)." is printed ...
Announce ==
  /\ MainAt("announce")
  /\ dpc' = "lock"
  /\ MainOnly /\ UNCHANGED <<folder, todo, signals>>

\* ... and then the wait begins: gCv.wait(lk), without a predicate.
Wait ==
  /\ MainAt("lock")
  /\ dpc' = "wait"
  /\ MainOnly /\ UNCHANGED <<folder, todo, signals>>

\* The wait of a condition variable may end on its own.
WakeUp ==
  /\ MainAt("wait")
  /\ dpc' = "stop"
  /\ MainOnly /\ UNCHANGED <<folder, todo, signals>>

Stop ==
  /\ MainAt("stop")
  /\ StopListener
  /\ dpc' = "stopping"
  /\ UNCHANGED <<folder, todo, signals>>

\* Slip: main returns without waiting for stopListener.
ReturnEarly ==
  /\ dpc = "stopping" /\ fate = "up"
  /\ Terminate("exit 0")
  /\ UNCHANGED <<starts, daemonVars>>

Return ==
  /\ MainAt("stopping")
  /\ Terminate("exit 0")
  /\ UNCHANGED <<starts, daemonVars>>

\* SIGINT ends the process until the handler is installed.  From then on it
\* notifies whoever is waiting at that moment, and nobody else.
Sigint ==
  /\ fate = "up" /\ signals < MaxSignals
  /\ signals' = signals + 1
  /\ \/ dpc = "load" /\ Terminate("killed") /\ UNCHANGED <<starts, dpc>>
     \/ dpc = "wait" /\ dpc' = "stop" /\ MainOnly
     \/ dpc \notin {"load", "wait"} /\ UNCHANGED dpc /\ MainOnly
  /\ UNCHANGED <<folder, todo>>

-----------------------------------------------------------------------------
MainNext ==
  \/ \E s \in folder : SkipIgnored(s) \/ Load(s)
  \/ LoadFails \/ InstallHandler \/ Start \/ Announce \/ Wait \/ Stop \/ Return

\* What goes on inside the library meanwhile.
CallNext == LockToAdd(Owner) \/ PushBack(Owner) \/ UnlockAdded(Owner) \/ Join

LibraryNext == CallNext \/ HandlerNext

DaemonNext ==
  \/ MainNext \/ WakeUp \/ Sigint
  \/ (LibraryNext \/ Arrive) /\ UNCHANGED daemonVars
  \/ Gone /\ UNCHANGED daemonVars

DaemonSpec == DaemonInit /\ [][DaemonNext]_allVars

-----------------------------------------------------------------------------
\* Properties.

\* Every section main took on is an entry of the registry before the first
\* request can be answered: nobody is told half of what the files say.
AnswersAreComplete ==
  \A k \in DOMAIN sent :
     /\ sent[k].upto = Cardinality({s \in folder : ~Ignored(s)})
     /\ {services[j].name : j \in 1..sent[k].upto}
          = {s.entry.name : s \in {x \in folder : ~Ignored(x)}}

\* A section that cannot be used keeps the daemon from listening at all: it
\* does not come up with the rest.
NoListenerInPart ==
  hpc # "none" =>
     \A s \in folder : Ignored(s) \/ (s.numeric /\ ValidEntry(EntryOf(s)))

\* main never starts a thread over another one, nor joins one that is not
\* there, whenever the signals come.
LibraryUsedRightly == fate \notin {"started twice", "nothing to join"}

\* When main returns 0 the handler thread is gone and holds nothing, so the
\* static registry and its mutex are destroyed under nobody's feet.
CleanExit == fate = "exit 0" => hpc = "none" /\ mutex = Free /\ ~running

-----------------------------------------------------------------------------
\* What the daemon says of itself and the code does not do.

\* Once it says so, SIGINT terminates the daemon.
SigintTerminates ==
  \A n \in 0..MaxSignals - 1 :
     [](dpc \in {"lock", "wait"} /\ signals = n
          => [](signals = n + 1 => <>(fate # "up")))

=============================================================================
