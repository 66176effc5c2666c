--------------------------- MODULE MCMqttClient ---------------------------
(* Instances of MqttClient for model checking. *)
EXTENDS MqttClient

MCTopics == {"t"}

\* One request: what is left is the connection's life.
MCShortScript == << [op |-> "pub", topic |-> "t", qos |-> 1] >>

\* The demo's requests, in its order (onemo_mqtt_demo.c:310-339).
MCDemoScript ==
    << [op |-> "sub",   topic |-> "t", qos |-> 1],
       [op |-> "pub",   topic |-> "t", qos |-> 2],
       [op |-> "unsub", topic |-> "t", qos |-> 0] >>
=============================================================================
