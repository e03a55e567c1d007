------------------------------ MODULE MqttApp -------------------------------
(***************************************************************************)
(* The example for microcontrollers, arduino/test/sming/app: when the      *)
(* station gets an address the application asks for an MQTT broker, looks  *)
(* half a second later at what came back, connects to the first broker in  *)
(* it and publishes every ten seconds.                                     *)
(*                                                                         *)
(* One timer, procTimer, serves the check, the publishing and the          *)
(* reconnecting; whoever starts it takes it from its user before.          *)
(***************************************************************************)
EXTENDS ArduinoClient

CONSTANTS
  NyanPort,   \* 11310
  Filter,     \* "mqtt"
  MaxGotIP    \* bound of the checked instance

ASSUME MqttAssumption ==
  NyanPort \in Ports /\ Filter \in Strings /\ MaxGotIP \in Nat

VARIABLES
  timer,      \* who has procTimer: "off", "check", "publish" or "reconnect"
  url,        \* mqtt_url: the record it was made of, Null while it is empty
  mqtt,       \* the connection: "idle", "connecting" or "connected"
  outcome,    \* history: of the last query: "none", "asked", "failed", "found"
  gotIPs      \* history: how often the station got an address

appVars == <<timer, url, mqtt, outcome, gotIPs>>
vars == <<clientVars, appVars>>

AppInit ==
  /\ ClientInit
  /\ timer = "off" /\ url = Null /\ mqtt = "idle"
  /\ outcome = "none" /\ gotIPs = 0

-----------------------------------------------------------------------------
\* onConnected: the station got an address.
GotIP ==
  /\ gotIPs < MaxGotIP
  /\ gotIPs' = gotIPs + 1
  /\ \E verdict \in {0, 4} :
        /\ SendQuery(NyanPort, <<[proto |-> ProtocolAll, filter |-> Filter]>>,
                     verdict)
        /\ \/ verdict # 0 /\ outcome' = "failed" /\ UNCHANGED timer
           \/ verdict = 0 /\ outcome' = "asked" /\ timer' = "check"
  /\ UNCHANGED <<url, mqtt>>

\* startMqttClient.  A connection there may be is given up for the new one.
StartMqttClient ==
  /\ timer' = "off"
  /\ mqtt' = "connecting"

\* checkResponses: nothing came, or what came cannot be used.
GiveUp == timer' = "off" /\ outcome' = "failed" /\ UNCHANGED <<url, mqtt>>

NoResponse ==
  /\ memory = "sound" /\ timer = "check" /\ ~HasResponse
  /\ GiveUp
  /\ UNCHANGED <<clientVars, gotIPs>>

Usable(r) == r.verdict = 0 /\ r.recs # <<>>

\* Slip: the timer goes on when the responses cannot be used.
CheckUntilUsable ==
  /\ memory = "sound" /\ timer = "check" /\ HasResponse
  /\ \E r \in Results :
        /\ GetResponses(r)
        /\ \/ /\ Usable(r)
              /\ url' = r.recs[1] /\ outcome' = "found"
              /\ StartMqttClient
           \/ /\ ~Usable(r)
              /\ outcome' = "failed" /\ UNCHANGED <<timer, url, mqtt>>
  /\ UNCHANGED gotIPs

\* checkResponses: the first record is the broker, whatever it is.
CheckResponses ==
  /\ memory = "sound" /\ timer = "check" /\ HasResponse
  /\ \E r \in Results :
        /\ GetResponses(r)
        /\ \/ /\ Usable(r)
              /\ url' = r.recs[1] /\ outcome' = "found"
              /\ StartMqttClient
           \/ /\ ~Usable(r)
              /\ GiveUp
  /\ UNCHANGED gotIPs

-----------------------------------------------------------------------------
\* The MQTT client calls back.

\* The connected handler publishes and starts the timer for the next time.
Connected ==
  /\ memory = "sound" /\ mqtt = "connecting"
  /\ mqtt' = "connected" /\ timer' = "publish"
  /\ UNCHANGED <<clientVars, url, outcome, gotIPs>>

\* Slip: the reconnect is not scheduled when the broker was unreachable.
DisconnectForgotten ==
  /\ memory = "sound" /\ mqtt # "idle"
  /\ mqtt' = "idle"
  /\ timer' = IF mqtt = "connected" THEN "reconnect" ELSE timer
  /\ UNCHANGED <<clientVars, url, outcome, gotIPs>>

\* checkMQTTDisconnect: the broker is unreachable, or gone.
Disconnect ==
  /\ memory = "sound" /\ mqtt # "idle"
  /\ mqtt' = "idle" /\ timer' = "reconnect"
  /\ UNCHANGED <<clientVars, url, outcome, gotIPs>>

\* Slip: the timer is stopped and the connection is not made.
ReconnectOnlyStops ==
  /\ memory = "sound" /\ timer = "reconnect"
  /\ timer' = "off"
  /\ UNCHANGED <<clientVars, url, mqtt, outcome, gotIPs>>

\* The reconnect timer.
Reconnect ==
  /\ memory = "sound" /\ timer = "reconnect"
  /\ StartMqttClient
  /\ UNCHANGED <<clientVars, url, outcome, gotIPs>>

\* publishMessage: the timer goes on, unless the connection is gone.
PublishMessage ==
  /\ memory = "sound" /\ timer = "publish"
  /\ IF mqtt = "connected" THEN UNCHANGED <<timer, mqtt>> ELSE StartMqttClient
  /\ UNCHANGED <<clientVars, url, outcome, gotIPs>>

-----------------------------------------------------------------------------
Arrive ==
  /\ \E m \in Datagrams, from \in Ports : Callback(m, from)
  /\ UNCHANGED appVars

\* Once freed memory was used nothing can be said any more.
Gone == memory # "sound" /\ UNCHANGED vars

TimerFires == NoResponse \/ CheckResponses \/ Reconnect \/ PublishMessage

AppNext ==
  \/ GotIP \/ TimerFires \/ Connected \/ Disconnect
  \/ Arrive \/ Gone

AppSpec == AppInit /\ [][AppNext]_vars

\* A timer that is set fires, and the MQTT client reports what became of a
\* connection it was told to make.  The network owes nothing.
AppFairSpec ==
  /\ AppSpec
  /\ WF_vars(TimerFires)
  /\ WF_vars(mqtt = "connecting" /\ (Connected \/ Disconnect))

-----------------------------------------------------------------------------
\* Properties.

\* A check that finds a broker has freed exactly the nodes of its own query.
FreesItsReplies ==
  [][outcome = "asked" /\ outcome' = "found"
       => Live' = Live \ {taken[i] : i \in DOMAIN taken}]_vars

\* The application sits idle without a timer only before the first query and
\* after one that found nothing: no callback leaves it waiting for nobody.
IdleForAReason ==
  mqtt = "idle" /\ timer = "off" => outcome \in {"none", "failed"}

\* A broker that was found is tried again, until a query finds nothing.
BrokerIsRetried ==
  mqtt = "idle" /\ url # Null
    ~> mqtt = "connecting" \/ outcome = "failed" \/ memory # "sound"

-----------------------------------------------------------------------------
\* What the application says of itself and the code does not do.

\* "Schedule a timer to send messages every 10 seconds": while the connection
\* lasts a message is due, or a check of replies that leads to a new connection.
\* The check that gives up stops the timer the messages were sent by.
PublishesWhileConnected == mqtt = "connected" => timer # "off"

=============================================================================
