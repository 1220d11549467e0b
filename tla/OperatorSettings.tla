-------------------------- MODULE OperatorSettings --------------------------
(***************************************************************************)
(* What the operator set is honoured by the calls of sensed.  A call reads *)
(* each check box and each ignore list at some step of its own, so only a  *)
(* setting in force from the arrival of the call on binds it: the history  *)
(* variable held[w] is the set of those settings.                          *)
(***************************************************************************)
EXTENDS WsnToVw

VARIABLE held

hvars == <<vars, held>>

\* The settings in force, as they bear on the reading of a call.
InForce(w) ==
    LET i == call[w].id
        t == call[w].type
        set == [paused |-> boxes["pause"],
                autoNodeOff |-> ~boxes["autoNode"],
                autoSensorOff |-> ~boxes["autoSensor"],
                nodeIgnored |-> i \in Range(ignoreNodes),
                sensorIgnored |-> Device(i, t) \in Range(ignoreSensors)]
    IN  {s \in DOMAIN set : set[s]}

HInit == Init /\ held = [w \in Workers |-> {}]

\* The loop of contains misses an element that a removal moves to where the
\* loop has been: an ignore list binds a call while nothing leaves the list.
Shrunk ==
    (IF Len(ignoreNodes') < Len(ignoreNodes) THEN {"nodeIgnored"} ELSE {})
        \cup (IF Len(ignoreSensors') < Len(ignoreSensors)
              THEN {"sensorIgnored"} ELSE {})

Track ==
    held' = [w \in Workers |->
        IF call'[w].pc = "idle" THEN {}
        ELSE IF At(w, "idle") THEN InForce(w)'
        ELSE (held[w] \cap InForce(w)') \ Shrunk]

HNext == Next /\ Track

HSpec == HInit /\ [][HNext]_hvars

\* Nothing is forwarded by a call that came and went while forwarding was
\* paused; nothing is registered by a call that came and went while that auto
\* add was off, or while the node or sensor was on the session's ignore list
\* and nothing was taken off that list.
SettingsHonoured ==
    [][\A w \in Workers :
          /\ At(w, "post") /\ call'[w].sent # Null => "paused" \notin held[w]
          /\ At(w, "nodeInsert") /\ call'[w].added = "node" =>
                held[w] \cap {"autoNodeOff", "nodeIgnored"} = {}
          /\ At(w, "sensorInsert") /\ call'[w].added = "sensor" =>
                held[w] \cap {"autoSensorOff", "sensorIgnored"} = {}]_hvars

=============================================================================
