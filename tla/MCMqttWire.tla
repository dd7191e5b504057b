------------------------------ MODULE MCMqttWire ------------------------------
(* The instances of MqttWire for TLC: strings with a character at each end of *)
(* the ranges of UTF-8, payloads at the end of a length of one digit, and     *)
(* payloads of every kind.                                                    *)
EXTENDS MqttWire

MCStrings == {<<>>, <<0, 127>>, <<128, 2047, 2048>>, <<55295, 65535>>, <<55296, 56320>>,
              <<56319, 57343, 65>>}

Publish(dup, qos, retained, topic, id, payload) ==
  [type |-> "PUBLISH", dup |-> dup, qos |-> qos, retained |-> retained, topic |-> topic,
   id |-> id, payload |-> payload]

MCPublishes ==
  {Publish(FALSE, 0, TRUE, s, 0, <<240, 0>>) : s \in MCStrings}
  \cup {Publish(TRUE, 1, FALSE, <<65>>, 256, [i \in 1..n |-> 255]) : n \in {122, 123}}
  \cup {Publish(TRUE, 2, TRUE, <<66>>, 65535, <<10, 0, 255>>)}

Buffer(b)  == [kind |-> "buffer", elements |-> b, part |-> FALSE]
View(s, part) == [kind |-> "view", elements |-> s, part |-> part]

\* Elements with two, three and four digits.
MCPayloads ==
  {Buffer(<<10, 0, 255>>), View(<<>>, FALSE), View(<<15, 255, 256>>, FALSE),
   View(<<4095, 4096, 65535>>, FALSE), View(<<1>>, TRUE)}

MCInbound ==
  MCPublishes
  \cup [type : {"CONNACK"}, present : {TRUE}, code : {0}]
  \cup [type : {"PUBREC", "UNSUBACK"}, id : {511}]
  \cup [type : {"SUBACK"}, id : {256}, codes : {<<1, 128>>}]
  \cup [type : {"PINGRESP"}]

MCOptions == {<<>>, <<<<56319, 57343, 65>>>>}
MCWills ==
  {<<>>} \cup {<<[topic |-> s, payload |-> x, qos |-> 1, retained |-> TRUE]>> :
                s \in {<<>>, <<56319, 57343, 65>>},
                x \in {AsBytes([i \in 1..n |-> 1]) : n \in {0, 98, 110}}
                     \cup {Buffer(<<1, 2>>), View(<<256>>, TRUE)}}

MCOutbound ==
  {[p EXCEPT !.payload = AsBytes(@)] : p \in MCPublishes}
  \cup {Publish(FALSE, qos, FALSE, <<65>>, qos, x) : qos \in 0..2, x \in MCPayloads}
  \cup [type : {"SUBSCRIBE"}, id : {1, 255}, topics : {<<s, <<65>>>> : s \in MCStrings}, qos : 0..2]
  \cup [type : {"UNSUBSCRIBE"}, id : {65535}, topics : {<<s>> : s \in MCStrings}]
  \cup [type : {"PUBACK", "PUBREC", "PUBREL", "PUBCOMP"}, id : {1, 256}]
  \cup [type : {"PINGREQ", "DISCONNECT"}]

MCConnects ==
  [version : {<<>>, <<2>>, <<3>>, <<5>>}, clean : {<<>>, <<FALSE>>}, keepAlive : {<<>>, <<511>>},
   clientId : MCStrings, will : MCWills, user : MCOptions, password : MCOptions]

MCFewPackets == [type : {"PINGRESP"}] \cup [type : {"PUBACK"}, id : {1}]
=============================================================================
