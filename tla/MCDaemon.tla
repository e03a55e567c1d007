------------------------------ MODULE MCDaemon ------------------------------
(***************************************************************************)
(* Instances of Daemon for TLC.                                            *)
(***************************************************************************)
EXTENDS WinService

CONSTANT owner

MCStrings == {"", "web", "ssh", "host"}
MCStrBytes == [s \in MCStrings |-> IF s = "" THEN 0 ELSE 4]
MCClip == [s \in MCStrings |-> s]

Lines(name, port, known, numeric) ==
  [entry |-> [name |-> name, host |-> "", ipv6 |-> "", addr |-> 0, port |-> 0,
              proto |-> ProtocolTCP],
   port |-> port, known |-> known, numeric |-> numeric]

\* Two services, the port of one beyond 16 bits and that of the other below 0
\* (they become 80 and 22), and two ignored sections.
Usable == {Lines("web", 65616, TRUE, TRUE), Lines("ssh", -65514, TRUE, TRUE),
           Lines("", 80, TRUE, TRUE), Lines("web", 80, FALSE, FALSE)}

\* Among usable ones, sections that make main give up: a port that becomes 0,
\* an address that is no number.
Unusable == {Lines("web", 80, TRUE, TRUE), Lines("ssh", 22, TRUE, TRUE),
             Lines("web", 8080, TRUE, TRUE), Lines("ssh", 65536, TRUE, TRUE),
             Lines("web", 81, TRUE, FALSE), Lines("", 22, FALSE, TRUE)}

AllFolders == {Usable, Unusable}
UsableFolder == {Usable}
FileEntries == {EntryOf(s) : s \in Usable \cup Unusable}
MainEndings == {"exit 0", "exit 1", "killed", "uncaught exception"}

OneNetwork == [s \in {"near"} |-> {1}]
OneMessage == {BroadcastMessage(<<[proto |-> ProtocolAll, filter |-> ""]>>)}

=============================================================================
