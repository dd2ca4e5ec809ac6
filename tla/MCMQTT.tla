-------------------------------- MODULE MCMQTT --------------------------------
(***************************************************************************)
(* The parts of the MQTT library that do not share state, checked side by  *)
(* side: a behaviour is one of a stream of packets that is written, cut    *)
(* into reads and parsed, or of a subscription tree filters are added to.  *)
(*                                                                         *)
(* Strings are bytes: 97 is "a", 98 "b", 43 "+", 35 "#" and 47 "/".        *)
(***************************************************************************)
EXTENDS MQTTStream, SubscriptionTree

VARIABLE part

mqttVars == <<part, streamVars, tree>>

SomeUuid == <<117>>

ConnectOf(id, clean, will, qos, user, password) ==
  [type |-> "Connect", cleanSession |-> clean, willFlag |-> will,
   willQoS |-> qos, willRetain |-> will, userNameFlag |-> user,
   passwordFlag |-> password, keepAlive |-> 258, clientId |-> id,
   willTopic |-> <<97, 47>>, willMessage |-> <<>>, userName |-> <<98>>,
   password |-> <<97>>]

PublishOf(topic, qos, payload) ==
  [type |-> "Publish", topic |-> topic, qos |-> qos, id |-> 513,
   payload |-> payload]

SubscribeOf(filters) ==
  [type |-> "Subscribe", id |-> 256,
   filters |-> [i \in DOMAIN filters |->
                  [filter |-> filters[i][1], qos |-> filters[i][2]]]]

SubackOf(levels) == [type |-> "Suback", id |-> 1, qos |-> levels]

Connects ==
  {ConnectOf(<<97>>, FALSE, TRUE, 1, TRUE, TRUE),
   ConnectOf(<<>>, TRUE, FALSE, 0, FALSE, FALSE),
   ConnectOf(<<>>, FALSE, FALSE, 0, FALSE, FALSE),
   ConnectOf(<<98>>, FALSE, TRUE, 2, TRUE, FALSE)}

Publishes ==
  {PublishOf(<<97>>, 0, <<98>>), PublishOf(<<97, 47>>, 1, <<>>),
   PublishOf(<<>>, 2, <<0, 255>>), PublishOf(<<97>>, 0, <<>>),
   PublishOf(<<43>>, 0, <<97>>)}

Subscribes ==
  {SubscribeOf(<< <<<<97>>, 1>>, <<<<98>>, 0>>, <<<<97>>, 1>> >>),
   SubscribeOf(<< <<<<97>>, 1>>, <<<<98>>, 1>>, <<<<97>>, 1>> >>),
   SubscribeOf(<< <<<<43, 47, 35>>, 2>> >>),
   SubscribeOf(<< <<<<97, 35>>, 0>> >>)}

Others ==
  {SubackOf(<<0, 2>>), SubackOf(<<>>),
   [type |-> "Connack", flag |-> 1, code |-> 5]}
    \cup {[type |-> t] : t \in {"Pingreq", "Pingresp", "Disconnect", "Puback"}}

(* The longest one whose remaining length is one byte. *)
Long == PublishOf(<<>>, 0, [i \in 1..125 |-> 0])

SomePackets == Connects \cup Publishes \cup Subscribes \cup Others \cup {Long}

Init ==
  /\ part \in {"stream", "tree"}
  /\ StreamInit /\ TreeInit
  /\ part # "stream" => pkt = FreshPackets(CHOOSE g \in Garbage : TRUE)

Next ==
  /\ UNCHANGED part
  /\ \/ part = "stream" /\ StreamNext /\ UNCHANGED tree
     \/ part = "tree" /\ TreeNext /\ UNCHANGED streamVars

Spec == Init /\ [][Next]_mqttVars
=============================================================================
