------------------------------- MODULE Topics -------------------------------
(***************************************************************************)
(* The Kafka topic a message ends up in: each front end makes a name out   *)
(* of the url, path, topic or address the message came with, and Publish   *)
(* runs SanitizeTopic (kafka/kafka.go) over that name, which REST and SNMP *)
(* have partly been through already.  A name is a sequence of characters;  *)
(* "!" stands for the illegal ones, "b" and "z" for themselves and for the *)
(* legal ones, and the front ends' words are one character each, which a   *)
(* name may contain like any other.                                        *)
(***************************************************************************)
EXTENDS SequencesExt

CONSTANT MaxLen   \* bound: the length of the names messages come with

ASSUME TopicsAssumption == MaxLen \in Nat

VARIABLES
  front,    \* the front end
  source,   \* the name the message came with
  topic,    \* the name made of it so far
  at        \* "front", "publish" or "sent"

vars == <<front, source, topic, at>>

Words == {"coap", "mq", "snmp"}
Illegal == {"/", "!"}
Characters == {"b", "z", "."} \union Words \union Illegal
Bug_OnlySlashes(c) == c # "/"
IsLegal(c) == c \notin Illegal

----------------------------------------------------------------------------
(* SanitizeTopic.                                                           *)

Bug_DropFirst(t) == IF t = <<>> THEN t ELSE Tail(t)
TrimPrefix(t) == IF IsPrefix(<<"/">>, t) THEN Tail(t) ELSE t

Dotted(t) == [i \in DOMAIN t |-> IF t[i] = "/" THEN "." ELSE t[i]]

Namespace == <<"b", "z", ".">>

Bug_AlwaysPrefix(t) == FALSE
HasPrefix(t) == IsPrefix(Namespace, t)

RemoveIllegal(t) ==
  LET kept[i \in 0..Len(t)] ==
        IF i = 0 THEN <<>>
        ELSE IF IsLegal(t[i]) THEN Append(kept[i - 1], t[i]) ELSE kept[i - 1]
  IN  kept[Len(t)]

SanitizeTopic(t) ==
  LET legal == RemoveIllegal(Dotted(TrimPrefix(t)))
  IN  IF HasPrefix(legal) THEN legal ELSE Namespace \o legal

----------------------------------------------------------------------------
(* The names the front ends hand to Publish.                                *)

Tag(f) == CASE f = "coap" -> <<"coap">>
            [] f = "mqtt" -> <<"mq", ".">>
            [] f = "snmp" -> <<"snmp", ".", "op", ".">>
            [] f = "rest" -> <<>>

Sanitizes(f) == f \in {"rest", "snmp"}

Init ==
  /\ front \in {"rest", "coap", "mqtt", "snmp"}
  /\ source \in BoundedSeq(Characters, MaxLen)
  /\ topic = source /\ at = "front"

FrontEnd ==
  /\ at = "front" /\ at' = "publish"
  /\ topic' = Tag(front) \o (IF Sanitizes(front) THEN SanitizeTopic(source) ELSE source)
  /\ UNCHANGED <<front, source>>

Publish ==
  /\ at = "publish" /\ at' = "sent"
  /\ topic' = SanitizeTopic(topic)
  /\ UNCHANGED <<front, source>>

Next == FrontEnd \/ Publish

Spec == Init /\ [][Next]_vars

----------------------------------------------------------------------------
(* Whatever name a message comes with, and whether or not the front end has *)
(* sanitized it, the topic of the record is made of characters Kafka allows *)
(* and lies in the program's own namespace.  (Its length is another matter: *)
(* nothing keeps a long name within the 249 characters Kafka takes.)        *)
LegalCharacters ==
  at = "sent" => /\ \A i \in DOMAIN topic : topic[i] \notin Illegal
                 /\ IsPrefix(Namespace, topic)

(* REST sanitizes before Publish does it again: the topic its caller chose  *)
(* is the topic of the record.                                              *)
SecondPassIsIdle ==
  [][at = "publish" /\ front = "rest" => topic' = topic]_vars

(* No path, topic or address makes a CoAP, MQTT or SNMP record end up among *)
(* another front end's, though names may contain the others' words.  (REST  *)
(* has no word: its urls reach every topic.)                                *)
WordOf == [coap |-> "coap", mqtt |-> "mq", snmp |-> "snmp"]
FrontEndsKeepApart ==
  at = "sent" =>
    \A f \in DOMAIN WordOf : IsPrefix(Append(Namespace, WordOf[f]), topic) => front \in {f, "rest"}
=============================================================================
