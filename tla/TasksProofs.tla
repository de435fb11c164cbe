----------------------------- MODULE TasksProofs -----------------------------
(***************************************************************************)
(* Theorems about Tasks: the values of its variables, what an operation     *)
(* leaves behind, the connection a start joins over, and that every step is *)
(* one of the abstract operation.                                           *)
(* They follow from one inductive invariant, IInv.  TreeInv relates each    *)
(* group to its subtasks, whatever the tree: who has begun before whom, who *)
(* may still wait when a group has ended.  TickInv says that a OnceTask     *)
(* that was canceled is accounted for by a callback to come, and that what  *)
(* it depends on is rejected before it; TimerInv that a timer runs for a    *)
(* timeout that waits.  The rest is about the operations themselves: the    *)
(* early connection, the one a start joins over, and what a start has begun *)
(* before anything of it can fail.                                          *)
(***************************************************************************)
EXTENDS Tasks, FiniteSetTheorems, SequenceTheorems, WellFoundedInduction, TLAPS

-----------------------------------------------------------------------------
(* The trees *)

HeadOf(x) == Head(Sub(x))
Plain == {g \in Groups : Kind(g) # "once"}
Onces == {g \in Groups : Kind(g) = "once"}

(* What the assumptions on the trees say of the tree of the operation. *)
LEMMA TreeFacts ==
  ASSUME plan \in DOMAIN Plan
  PROVE  /\ Groups \subseteq Node /\ "root" \in Plain /\ IsFiniteSet(Node)
         /\ \A g \in Groups : /\ Kind(g) \in {"serial", "each", "timeout", "parallel", "once"}
                              /\ Sub(g) \in Seq(Node) /\ Sub(g) # <<>>
                              /\ \A i, j \in DOMAIN Sub(g) : Sub(g)[i] = Sub(g)[j] => i = j
         /\ \A n \in Node : n \in DOMAIN Task <=> n \notin Groups
         /\ \A g, h \in Groups, d \in Node : d \in ToSet(Sub(g)) /\ d \in ToSet(Sub(h)) => g = h
         /\ \A g \in Groups : "root" \notin ToSet(Sub(g))
         /\ \A d \in Node : Parents[plan][d] = {g \in Groups : d \in ToSet(Sub(g))}
<1>1. Node = Groups \cup UNION {ToSet(Sub(g)) : g \in Groups}
  BY DEF Node, Nodes, Groups, Sub
<1>2. "root" \in Plain /\ Groups \subseteq Node
  BY <1>1, TreeAssumption DEF Plain, Groups, Kind
<1>3. \A g \in Groups : /\ Kind(g) \in {"serial", "each", "timeout", "parallel", "once"}
                        /\ Sub(g) \in Seq(Node) /\ Sub(g) # <<>>
                        /\ \A i, j \in DOMAIN Sub(g) : Sub(g)[i] = Sub(g)[j] => i = j
  BY TreeAssumption DEF Groups, Kind, Sub, Node
<1>4. \A n \in Node : \A g, h \in Groups : n \in ToSet(Sub(g)) /\ n \in ToSet(Sub(h)) => g = h
  BY TreeAssumption DEF ParentsOf, Groups, Sub, Node
<1>5. \A g \in Groups : "root" \notin ToSet(Sub(g))
  <2>1. ParentsOf(plan, "root") = {}
    BY <1>2, TreeAssumption DEF Node, Plain
  <2> QED  BY <2>1 DEF ParentsOf, Groups, Sub
<1>6. \A d \in Node : Parents[plan][d] = {g \in Groups : d \in ToSet(Sub(g))}
  BY DEF Parents, ParentsOf, Groups, Sub, Node
<1>7. IsFiniteSet(Node) /\ \A n \in Node : n \in DOMAIN Task <=> n \notin Groups
  BY LeavesAssumption DEF Node, Groups
<1> QED  BY <1>2, <1>3, <1>4, <1>5, <1>6, <1>7

(* The tasks of a group, the one it wraps or runs first and the others. *)
LEMMA SubFacts ==
  ASSUME plan \in DOMAIN Plan, NEW g \in Groups
  PROVE  /\ ToSet(Sub(g)) \subseteq Node /\ DOMAIN Sub(g) = 1..Len(Sub(g))
         /\ Len(Sub(g)) \in Nat \ {0}
         /\ HeadOf(g) = Sub(g)[1] /\ HeadOf(g) \in ToSet(Sub(g))
         /\ Dependencies(g) = ToSet(Sub(g)) \ {HeadOf(g)}
         /\ Kind(g) = "timeout" => ToSet(Sub(g)) = {HeadOf(g)}
         /\ Kind(g) \in {"timeout", "parallel", "once"} => HeadOf(g) \notin Onces
         /\ \A d \in Dependencies(g) : d \in Onces <=> Kind(g) = "once"
         /\ \A d \in ToSet(Sub(g)) : \E i \in 1..Len(Sub(g)) : d = Sub(g)[i]
         /\ \A i \in 1..Len(Sub(g)) : Sub(g)[i] \in ToSet(Sub(g))
<1> DEFINE s == Sub(g)
<1>1. s \in Seq(Node) /\ s # <<>> /\ \A i, j \in DOMAIN s : s[i] = s[j] => i = j
  BY TreeFacts
<1>2. /\ s \in [1..Len(s) -> Node] /\ Len(s) \in Nat \ {0} /\ HeadOf(g) = s[1]
      /\ Tail(s) \in Seq(Node) /\ Len(Tail(s)) = Len(s) - 1
      /\ \A i \in 1..Len(Tail(s)) : Tail(s)[i] = s[i + 1]
  BY <1>1 DEF HeadOf
<1>3. ToSet(s) = {s[i] : i \in 1..Len(s)} /\ Dependencies(g) = {s[i] : i \in 2..Len(s)}
  <2>1. ToSet(s) = {s[i] : i \in 1..Len(s)}
    BY <1>2 DEF ToSet
  <2> DEFINE q == Tail(s)
             n == Len(s)
  <2>2. /\ q \in Seq(Node) /\ Len(q) = n - 1 /\ n \in Nat \ {0}
        /\ \A i \in 1..(n - 1) : q[i] = s[i + 1]
    BY <1>2
  <2> HIDE DEF q, n
  <2>3. ToSet(q) = {q[i] : i \in 1..(n - 1)}
    BY <2>2 DEF ToSet
  <2>4. /\ \A i \in 1..(n - 1) : i + 1 \in 2..n
        /\ \A i \in 2..n : i - 1 \in 1..(n - 1) /\ s[i] = q[i - 1]
    BY <2>2
  <2>5. ToSet(q) = {s[i] : i \in 2..n}
    <3>1. \A x \in ToSet(q) : x \in {s[i] : i \in 2..n}
      BY <2>2, <2>3, <2>4
    <3>2. \A x \in {s[i] : i \in 2..n} : x \in ToSet(q)
      BY <2>3, <2>4
    <3> QED  BY <3>1, <3>2
  <2> QED  BY <2>1, <2>5 DEF Dependencies, q, n
<1>4. Dependencies(g) = ToSet(s) \ {HeadOf(g)}
  <2>1. \A i \in 2..Len(s) : s[i] # s[1] /\ i \in 1..Len(s)
    BY <1>1, <1>2
  <2> QED  BY <1>2, <1>3, <2>1
<1>5. /\ Kind(g) = "timeout" => Len(s) = 1
      /\ Kind(g) \in {"timeout", "parallel", "once"} => s[1] \notin Onces
      /\ \A i \in 2..Len(s) : s[i] \in Onces <=> Kind(g) = "once"
  BY TreeAssumption DEF Groups, Kind, Sub, Onces
<1> HIDE DEF s
<1>6. /\ ToSet(s) \subseteq Node /\ DOMAIN s = 1..Len(s) /\ Len(s) \in Nat \ {0}
      /\ HeadOf(g) = s[1] /\ HeadOf(g) \in ToSet(s)
      /\ \A d \in ToSet(s) : \E i \in 1..Len(s) : d = s[i]
      /\ \A i \in 1..Len(s) : s[i] \in ToSet(s)
  BY <1>2, <1>3
<1>7. Kind(g) = "timeout" => ToSet(s) = {HeadOf(g)}
  <2> SUFFICES ASSUME Len(s) = 1  PROVE ToSet(s) = {s[1]}
    BY <1>2, <1>5 DEF s
  <2>1. 1..1 = {1}
    OBVIOUS
  <2> QED  BY <1>3, <2>1
<1>8. /\ Kind(g) \in {"timeout", "parallel", "once"} => HeadOf(g) \notin Onces
      /\ \A d \in Dependencies(g) : d \in Onces <=> Kind(g) = "once"
  BY <1>2, <1>3, <1>5
<1> QED  BY <1>4, <1>6, <1>7, <1>8 DEF s

-----------------------------------------------------------------------------
(* The operations, by their names. *)
LEMMA PlanIs ==
  /\ DOMAIN Plan = {"start", "startWithoutAudio", "tasks", "tasksWithoutAudio", "reconnect",
                    "update", "disconnect", "promote"}
  /\ Plan["start"] = connectWithPromises(TRUE)
  /\ Plan["startWithoutAudio"] = connectWithPromises(FALSE)
  /\ Plan["tasks"] = connectWithTasks(TRUE)
  /\ Plan["tasksWithoutAudio"] = connectWithTasks(FALSE)
  /\ Plan["reconnect"] = actionReconnect
  /\ Plan["update"] = actionUpdateWithRenegotiation
  /\ Plan["disconnect"] = actionDisconnect
  /\ Plan["promote"] = actionPromoteToPrimaryMeeting
BY DEF Plan

(* The members of a short tuple. *)
LEMMA TupleSets ==
  /\ \A a : ToSet(<<a>>) = {a}
  /\ \A a, b : ToSet(<<a, b>>) = {a, b}
  /\ \A a, b, c : ToSet(<<a, b, c>>) = {a, b, c}
  /\ \A a, b, c, d, e, f : ToSet(<<a, b, c, d, e, f>>) = {a, b, c, d, e, f}
  /\ \A a, b, c, d, e, f, g : ToSet(<<a, b, c, d, e, f, g>>) = {a, b, c, d, e, f, g}
<1>1. \A a : ToSet(<<a>>) = {a}
  BY DEF ToSet
<1>2. \A a, b : ToSet(<<a, b>>) = {a, b}
  BY DEF ToSet
<1>3. \A a, b, c : ToSet(<<a, b, c>>) = {a, b, c}
  BY DEF ToSet
<1>4. \A a, b, c, d, e, f : ToSet(<<a, b, c, d, e, f>>) = {a, b, c, d, e, f}
  BY DEF ToSet
<1>5. \A a, b, c, d, e, f, g : ToSet(<<a, b, c, d, e, f, g>>) = {a, b, c, d, e, f, g}
  BY DEF ToSet
<1> QED  BY <1>1, <1>2, <1>3, <1>4, <1>5

(* The groups of a start with promises, and what each is made of. *)
LEMMA StartIs ==
  ASSUME plan \in Promised
  PROVE  /\ plan \in DOMAIN Plan
         /\ {"root", "monitor", "connectionTimeout", "Peer", "subscribeAck", "ice",
             "setLocalDescription", "createSDP", "attachMediaInput", "createPeerConnection",
             "receiveAudioInput", "signaling", "Signaling", "open", "openTimeout"} \subseteq Groups
         /\ Groups \subseteq {"root", "monitor", "connectionTimeout", "Peer", "subscribeAck", "ice",
             "setLocalDescription", "createSDP", "attachMediaInput", "createPeerConnection",
             "receiveAudioInput", "signaling", "Signaling", "open", "openTimeout",
             "presenceTimeout", "FinalizeConnection"}
         /\ Kind("root") = "serial" /\ Sub("root") = <<"monitor", "connectionTimeout">>
         /\ Kind("monitor") = "once" /\ Sub("monitor") = <<"Monitor">>
         /\ Kind("connectionTimeout") = "timeout" /\ Sub("connectionTimeout") = <<"Peer">>
         /\ Kind("Peer") = "serial"
         /\ \E last \in {"presenceTimeout", "SetRemoteDescription"} :
              /\ Sub("Peer") = <<"subscribeAck", last>>
              /\ ("presenceTimeout" \in Groups) <=> last = "presenceTimeout"
         /\ ("presenceTimeout" \in Groups) <=> ("FinalizeConnection" \in Groups)
         /\ "presenceTimeout" \in Groups =>
              /\ Kind("presenceTimeout") = "timeout"
              /\ Sub("presenceTimeout") = <<"FinalizeConnection">>
              /\ Kind("FinalizeConnection") = "parallel"
              /\ Sub("FinalizeConnection") = <<"WaitForAttendeePresence", "SetRemoteDescription">>
         /\ Kind("subscribeAck") = "once"
         /\ Sub("subscribeAck") = <<"SubscribeAndReceiveSubscribeAck", "ice">>
         /\ Kind("ice") = "once"
         /\ Sub("ice") = <<"FinishGatheringICECandidates", "setLocalDescription">>
         /\ Kind("setLocalDescription") = "once"
         /\ Sub("setLocalDescription") = <<"SetLocalDescription", "createSDP">>
         /\ Kind("createSDP") = "once" /\ Sub("createSDP") = <<"CreateSDP", "attachMediaInput">>
         /\ Kind("attachMediaInput") = "once"
         /\ Sub("attachMediaInput") =
              <<"AttachMediaInput", "createPeerConnection", "receiveAudioInput">>
         /\ Kind("createPeerConnection") = "once"
         /\ Sub("createPeerConnection") = <<"CreatePeerConnection", "signaling">>
         /\ Kind("receiveAudioInput") = "once" /\ Sub("receiveAudioInput") = <<"ReceiveAudioInput">>
         /\ Kind("signaling") = "once" /\ Sub("signaling") = <<"Signaling">>
         /\ Kind("Signaling") = "serial"
         /\ Sub("Signaling") =
              <<"open", "ListenForVolumeIndicators", "SendAndReceiveDataMessages",
                "JoinAndReceiveIndex", "ReceiveTURNCredentials", "ReceiveVideoStreamIndex">>
         /\ Kind("open") = "once" /\ Sub("open") = <<"openTimeout">>
         /\ Kind("openTimeout") = "timeout" /\ Sub("openTimeout") = <<"OpenSignalingConnection">>
<1>1. PICK w \in BOOLEAN : Plan[plan] = connectWithPromises(w)
  BY PlanIs DEF Promised
<1>2. plan \in DOMAIN Plan
  BY PlanIs DEF Promised
<1>3. DOMAIN connectWithPromises(w) =
        {"root", "monitor", "connectionTimeout", "Peer", "subscribeAck", "ice",
         "setLocalDescription", "createSDP", "attachMediaInput", "createPeerConnection",
         "receiveAudioInput", "signaling", "Signaling", "open", "openTimeout"}
        \cup IF w THEN {"presenceTimeout", "FinalizeConnection"} ELSE {}
  BY DEF connectWithPromises, Finalize, createOrReuseSignalingTask, ++
<1> DEFINE c == connectWithPromises(w)
<1>4. /\ c["root"] = Serial(<<"monitor", "connectionTimeout">>)
      /\ c["monitor"] = Once(<<"Monitor">>)
      /\ c["connectionTimeout"] = Timeout("Peer")
      /\ c["Peer"] = Serial(<<"subscribeAck", Final(w)>>)
      /\ c["subscribeAck"] = Once(<<"SubscribeAndReceiveSubscribeAck", "ice">>)
      /\ c["ice"] = Once(<<"FinishGatheringICECandidates", "setLocalDescription">>)
      /\ c["setLocalDescription"] = Once(<<"SetLocalDescription", "createSDP">>)
      /\ c["createSDP"] = Once(<<"CreateSDP", "attachMediaInput">>)
  BY DEF connectWithPromises, Finalize, createOrReuseSignalingTask, ++
<1>5. /\ c["attachMediaInput"] =
           Once(<<"AttachMediaInput", "createPeerConnection", "receiveAudioInput">>)
      /\ c["createPeerConnection"] = Once(<<"CreatePeerConnection", "signaling">>)
      /\ c["receiveAudioInput"] = Once(<<"ReceiveAudioInput">>)
      /\ c["signaling"] = Once(<<"Signaling">>)
      /\ c["Signaling"] = Signaling("open")
      /\ c["open"] = Once(<<"openTimeout">>)
      /\ c["openTimeout"] = Timeout("OpenSignalingConnection")
      /\ w => /\ c["presenceTimeout"] = Timeout("FinalizeConnection")
              /\ c["FinalizeConnection"] =
                   Parallel(<<"WaitForAttendeePresence", "SetRemoteDescription">>)
  BY DEF connectWithPromises, Finalize, createOrReuseSignalingTask, ++
<1>6. /\ \A s : Serial(s).kind = "serial" /\ Serial(s).sub = s
      /\ \A s : Parallel(s).kind = "parallel" /\ Parallel(s).sub = s
      /\ \A a : Timeout(a).kind = "timeout" /\ Timeout(a).sub = <<a>>
      /\ \A s : Once(s).kind = "once" /\ Once(s).sub = s
  BY DEF Serial, Parallel, Timeout, Once
<1>7. Final(w) = IF w THEN "presenceTimeout" ELSE "SetRemoteDescription"
  BY DEF Final
<1>8. /\ Groups = DOMAIN c
      /\ \A g : Kind(g) = c[g].kind /\ Sub(g) = c[g].sub
  BY <1>1 DEF Groups, Kind, Sub
<1> HIDE DEF c
<1>9. /\ Kind("root") = "serial" /\ Sub("root") = <<"monitor", "connectionTimeout">>
      /\ Kind("monitor") = "once" /\ Sub("monitor") = <<"Monitor">>
      /\ Kind("connectionTimeout") = "timeout" /\ Sub("connectionTimeout") = <<"Peer">>
      /\ Kind("Peer") = "serial" /\ Sub("Peer") = <<"subscribeAck", Final(w)>>
      /\ Kind("subscribeAck") = "once"
      /\ Sub("subscribeAck") = <<"SubscribeAndReceiveSubscribeAck", "ice">>
      /\ Kind("ice") = "once"
      /\ Sub("ice") = <<"FinishGatheringICECandidates", "setLocalDescription">>
      /\ Kind("setLocalDescription") = "once"
      /\ Sub("setLocalDescription") = <<"SetLocalDescription", "createSDP">>
      /\ Kind("createSDP") = "once" /\ Sub("createSDP") = <<"CreateSDP", "attachMediaInput">>
  BY <1>4, <1>6, <1>8
<1>10. /\ Kind("attachMediaInput") = "once"
       /\ Sub("attachMediaInput") =
            <<"AttachMediaInput", "createPeerConnection", "receiveAudioInput">>
       /\ Kind("createPeerConnection") = "once"
       /\ Sub("createPeerConnection") = <<"CreatePeerConnection", "signaling">>
       /\ Kind("receiveAudioInput") = "once" /\ Sub("receiveAudioInput") = <<"ReceiveAudioInput">>
       /\ Kind("signaling") = "once" /\ Sub("signaling") = <<"Signaling">>
       /\ Kind("Signaling") = "serial"
       /\ Sub("Signaling") =
            <<"open", "ListenForVolumeIndicators", "SendAndReceiveDataMessages",
              "JoinAndReceiveIndex", "ReceiveTURNCredentials", "ReceiveVideoStreamIndex">>
       /\ Kind("open") = "once" /\ Sub("open") = <<"openTimeout">>
       /\ Kind("openTimeout") = "timeout" /\ Sub("openTimeout") = <<"OpenSignalingConnection">>
  BY <1>5, <1>6, <1>8 DEF Signaling
<1>11. w => /\ Kind("presenceTimeout") = "timeout"
            /\ Sub("presenceTimeout") = <<"FinalizeConnection">>
            /\ Kind("FinalizeConnection") = "parallel"
            /\ Sub("FinalizeConnection") = <<"WaitForAttendeePresence", "SetRemoteDescription">>
  BY <1>5, <1>6, <1>8
<1>12. ("presenceTimeout" \in Groups <=> w) /\ ("FinalizeConnection" \in Groups <=> w)
  BY <1>3, <1>8 DEF c
<1>13. /\ {"root", "monitor", "connectionTimeout", "Peer", "subscribeAck", "ice",
           "setLocalDescription", "createSDP", "attachMediaInput", "createPeerConnection",
           "receiveAudioInput", "signaling", "Signaling", "open", "openTimeout"} \subseteq Groups
       /\ Groups \subseteq {"root", "monitor", "connectionTimeout", "Peer", "subscribeAck", "ice",
           "setLocalDescription", "createSDP", "attachMediaInput", "createPeerConnection",
           "receiveAudioInput", "signaling", "Signaling", "open", "openTimeout",
           "presenceTimeout", "FinalizeConnection"}
  BY <1>3, <1>8 DEF c
<1>14. \E last \in {"presenceTimeout", "SetRemoteDescription"} :
         /\ Sub("Peer") = <<"subscribeAck", last>>
         /\ ("presenceTimeout" \in Groups) <=> last = "presenceTimeout"
  BY <1>7, <1>9, <1>12
<1> QED  BY <1>2, <1>9, <1>10, <1>11, <1>12, <1>13, <1>14

(* A tree without a OnceTask and without an early connection, in which a      *)
(* session that joins opens its connection just before.                       *)
Joins(c) ==
  /\ "Signaling" \in DOMAIN c /\ c["Signaling"].kind = "serial"
  /\ c["Signaling"].sub[1] = "OpenSignalingConnection"
  /\ \E k \in DOMAIN c["Signaling"].sub :
       /\ k > 1 /\ c["Signaling"].sub[k] = "JoinAndReceiveIndex"
       /\ \A i \in 2..(k - 1) :
            c["Signaling"].sub[i] \in {"ListenForVolumeIndicators", "SendAndReceiveDataMessages"}
  /\ \A g \in DOMAIN c : "CleanStoppedSession" \notin ToSet(c[g].sub)
(* Every group is reached from root. *)
Rooted(c) ==
  \A X : "root" \in X /\ (\A g \in DOMAIN c : g \in X => ToSet(c[g].sub) \subseteq X) =>
            DOMAIN c \subseteq X
Simple(c) ==
  /\ "open" \notin DOMAIN c
  /\ \A g \in DOMAIN c : c[g].kind # "once" /\ "open" \notin ToSet(c[g].sub)
  /\ Joins(c) \/ \A g \in DOMAIN c : "JoinAndReceiveIndex" \notin ToSet(c[g].sub)
  /\ Rooted(c)

(* What makes a group. *)
LEMMA Kinds ==
  /\ \A s : Serial(s).kind = "serial" /\ Serial(s).sub = s
  /\ \A s : Parallel(s).kind = "parallel" /\ Parallel(s).sub = s
  /\ \A a : Timeout(a).kind = "timeout" /\ Timeout(a).sub = <<a>>
  /\ \A s : Once(s).kind = "once" /\ Once(s).sub = s
  /\ \A s : InTurn(s).kind = "each" /\ InTurn(s).sub = s
BY DEF Serial, Parallel, Timeout, Once, InTurn

(* A start with tasks is such a tree. *)
LEMMA StartWithTasksIs ==
  ASSUME NEW w \in BOOLEAN  PROVE Simple(connectWithTasks(w))
<1> DEFINE c == connectWithTasks(w)
<1>1. DOMAIN c = {"root", "connectionTimeout", "Media", "Signaling", "Peer"}
                  \cup IF w THEN {"presenceTimeout", "FinalizeConnection"} ELSE {}
  BY DEF connectWithTasks, Finalize, ++
<1>2. /\ c["root"] = Serial(<<"Monitor", "ReceiveAudioInput", "connectionTimeout">>)
      /\ c["connectionTimeout"] = Timeout("Media")
      /\ c["Media"] = Serial(<<"Signaling", "Peer">>)
      /\ c["Signaling"] = Signaling("OpenSignalingConnection")
      /\ c["Peer"] = Serial(<<"CreatePeerConnection", "AttachMediaInput", "CreateSDP",
                    "SetLocalDescription", "FinishGatheringICECandidates",
                    "SubscribeAndReceiveSubscribeAck", Final(w)>>)
      /\ w => /\ c["presenceTimeout"] = Timeout("FinalizeConnection")
              /\ c["FinalizeConnection"] =
                   Parallel(<<"WaitForAttendeePresence", "SetRemoteDescription">>)
  BY DEF connectWithTasks, Finalize, ++
<1> HIDE DEF c
<1>3. Signaling("OpenSignalingConnection") =
        Serial(<<"OpenSignalingConnection", "ListenForVolumeIndicators",
                 "SendAndReceiveDataMessages", "JoinAndReceiveIndex", "ReceiveTURNCredentials",
                 "ReceiveVideoStreamIndex">>)
  BY DEF Signaling
<1>4. /\ c["root"].kind = "serial"
      /\ ToSet(c["root"].sub) = {"Monitor", "ReceiveAudioInput", "connectionTimeout"}
      /\ c["connectionTimeout"].kind = "timeout" /\ ToSet(c["connectionTimeout"].sub) = {"Media"}
      /\ c["Media"].kind = "serial" /\ ToSet(c["Media"].sub) = {"Signaling", "Peer"}
  <2>1. c["root"].sub = <<"Monitor", "ReceiveAudioInput", "connectionTimeout">>
    BY <1>2, Kinds
  <2>2. c["connectionTimeout"].sub = <<"Media">>
    BY <1>2, Kinds
  <2>3. c["Media"].sub = <<"Signaling", "Peer">>
    BY <1>2, Kinds
  <2>4. /\ c["root"].kind = "serial"
        /\ c["connectionTimeout"].kind = "timeout"
        /\ c["Media"].kind = "serial"
    BY <1>2, Kinds
  <2> QED  BY <2>1, <2>2, <2>3, <2>4, TupleSets
<1>5. /\ c["Signaling"].kind = "serial"
      /\ c["Signaling"].sub =
           <<"OpenSignalingConnection", "ListenForVolumeIndicators",
             "SendAndReceiveDataMessages", "JoinAndReceiveIndex", "ReceiveTURNCredentials",
             "ReceiveVideoStreamIndex">>
      /\ ToSet(c["Signaling"].sub) =
           {"OpenSignalingConnection", "ListenForVolumeIndicators",
            "SendAndReceiveDataMessages", "JoinAndReceiveIndex", "ReceiveTURNCredentials",
            "ReceiveVideoStreamIndex"}
  <2>1. c["Signaling"].sub =
          <<"OpenSignalingConnection", "ListenForVolumeIndicators",
            "SendAndReceiveDataMessages", "JoinAndReceiveIndex", "ReceiveTURNCredentials",
            "ReceiveVideoStreamIndex">>
    BY <1>2, <1>3, Kinds
  <2>2. c["Signaling"].kind = "serial"
    BY <1>2, <1>3, Kinds
  <2> QED  BY <2>1, <2>2, TupleSets
<1>6. /\ c["Peer"].kind = "serial"
      /\ ToSet(c["Peer"].sub) =
           {"CreatePeerConnection", "AttachMediaInput", "CreateSDP", "SetLocalDescription",
            "FinishGatheringICECandidates", "SubscribeAndReceiveSubscribeAck", Final(w)}
  <2>1. c["Peer"].sub =
          <<"CreatePeerConnection", "AttachMediaInput", "CreateSDP",
            "SetLocalDescription", "FinishGatheringICECandidates",
            "SubscribeAndReceiveSubscribeAck", Final(w)>>
    BY <1>2, Kinds
  <2>2. c["Peer"].kind = "serial"
    BY <1>2, Kinds
  <2> QED  BY <2>1, <2>2, TupleSets
<1>7. w => /\ c["presenceTimeout"].kind = "timeout"
           /\ ToSet(c["presenceTimeout"].sub) = {"FinalizeConnection"}
           /\ c["FinalizeConnection"].kind = "parallel"
           /\ ToSet(c["FinalizeConnection"].sub) =
                {"WaitForAttendeePresence", "SetRemoteDescription"}
  <2> SUFFICES ASSUME w
               PROVE  /\ c["presenceTimeout"].kind = "timeout"
                      /\ ToSet(c["presenceTimeout"].sub) = {"FinalizeConnection"}
                      /\ c["FinalizeConnection"].kind = "parallel"
                      /\ ToSet(c["FinalizeConnection"].sub) =
                           {"WaitForAttendeePresence", "SetRemoteDescription"}
    OBVIOUS
  <2>1. /\ c["presenceTimeout"].kind = "timeout"
        /\ c["presenceTimeout"].sub = <<"FinalizeConnection">>
    BY <1>2, Kinds
  <2>2. /\ c["FinalizeConnection"].kind = "parallel"
        /\ c["FinalizeConnection"].sub = <<"WaitForAttendeePresence", "SetRemoteDescription">>
    BY <1>2, Kinds
  <2>3. ToSet(c["presenceTimeout"].sub) = {"FinalizeConnection"}
    BY <2>1, TupleSets
  <2>4. ToSet(c["FinalizeConnection"].sub) = {"WaitForAttendeePresence", "SetRemoteDescription"}
    BY <2>2, TupleSets
  <2> QED  BY <2>1, <2>2, <2>3, <2>4
<1>8. Final(w) \in {"presenceTimeout", "SetRemoteDescription"}
  BY DEF Final
<1>9. \A g \in DOMAIN c : /\ c[g].kind # "once"
                          /\ "open" \notin ToSet(c[g].sub)
                          /\ "CleanStoppedSession" \notin ToSet(c[g].sub)
  BY <1>1, <1>4, <1>5, <1>6, <1>7, <1>8
<1>10. \E k \in DOMAIN c["Signaling"].sub :
         /\ k > 1 /\ c["Signaling"].sub[k] = "JoinAndReceiveIndex"
         /\ \A i \in 2..(k - 1) :
            c["Signaling"].sub[i] \in {"ListenForVolumeIndicators", "SendAndReceiveDataMessages"}
  <2>1. 4 \in DOMAIN c["Signaling"].sub /\ c["Signaling"].sub[4] = "JoinAndReceiveIndex"
    BY <1>5
  <2>2. \A i \in 2..3 : i = 2 \/ i = 3
    OBVIOUS
  <2>3. /\ c["Signaling"].sub[2] = "ListenForVolumeIndicators"
        /\ c["Signaling"].sub[3] = "SendAndReceiveDataMessages"
    BY <1>5
  <2> QED  BY <2>1, <2>2, <2>3
<1>11. c["Signaling"].sub[1] = "OpenSignalingConnection"
  BY <1>5
<1>12. Joins(c)
  BY <1>1, <1>5, <1>9, <1>10, <1>11 DEF Joins
<1>20. Rooted(c)
  <2> SUFFICES ASSUME NEW X, "root" \in X,
                      \A g \in DOMAIN c : g \in X => ToSet(c[g].sub) \subseteq X
               PROVE  DOMAIN c \subseteq X
    BY DEF Rooted
  <2>1. {"root", "connectionTimeout", "Media", "Signaling", "Peer"} \subseteq X
    BY <1>1, <1>4
  <2>2. ASSUME w  PROVE "presenceTimeout" \in X /\ "FinalizeConnection" \in X
    <3>1. Final(w) = "presenceTimeout"
      BY <2>2 DEF Final
    <3>2. "presenceTimeout" \in X
      BY <1>1, <1>6, <2>1, <3>1
    <3> QED  BY <1>1, <1>7, <2>2, <3>2
  <2> QED  BY <1>1, <2>1, <2>2
<1> QED  BY <1>1, <1>9, <1>12, <1>20 DEF Simple, c

(* So is a reconnect. *)
LEMMA ReconnectIs == Simple(actionReconnect)
<1> DEFINE c == actionReconnect
<1>1. DOMAIN c = {"root", "mediaTimeout", "Media", "Signaling", "updateTimeout", "UpdateSession"}
  BY DEF actionReconnect
<1>2. /\ c["root"] = Serial(<<"mediaTimeout", "ReceiveVideoInput", "updateTimeout">>)
      /\ c["mediaTimeout"] = Timeout("Media")
      /\ c["Media"] = Serial(<<"CleanRestartedSession", "Signaling", "CreatePeerConnection">>)
      /\ c["Signaling"] = Serial(<<"OpenSignalingConnection", "JoinAndReceiveIndex",
                                   "ReceiveTURNCredentials">>)
      /\ c["updateTimeout"] = Timeout("UpdateSession")
      /\ c["UpdateSession"] = UpdateSession
  BY DEF actionReconnect
<1> HIDE DEF c
<1>3. UpdateSession =
        Serial(<<"AttachMediaInput", "CreateSDP", "SetLocalDescription",
                 "FinishGatheringICECandidates", "SubscribeAndReceiveSubscribeAck",
                 "SetRemoteDescription">>)
  BY DEF UpdateSession
<1>4. /\ c["root"].kind = "serial"
      /\ ToSet(c["root"].sub) = {"mediaTimeout", "ReceiveVideoInput", "updateTimeout"}
      /\ c["mediaTimeout"].kind = "timeout" /\ ToSet(c["mediaTimeout"].sub) = {"Media"}
      /\ c["Media"].kind = "serial"
      /\ ToSet(c["Media"].sub) = {"CleanRestartedSession", "Signaling", "CreatePeerConnection"}
  <2>1. c["root"].sub = <<"mediaTimeout", "ReceiveVideoInput", "updateTimeout">>
    BY <1>2, Kinds
  <2>2. c["mediaTimeout"].sub = <<"Media">>
    BY <1>2, Kinds
  <2>3. c["Media"].sub = <<"CleanRestartedSession", "Signaling", "CreatePeerConnection">>
    BY <1>2, Kinds
  <2>4. /\ c["root"].kind = "serial"
        /\ c["mediaTimeout"].kind = "timeout"
        /\ c["Media"].kind = "serial"
    BY <1>2, Kinds
  <2> QED  BY <2>1, <2>2, <2>3, <2>4, TupleSets
<1>5. /\ c["Signaling"].kind = "serial"
      /\ c["Signaling"].sub =
           <<"OpenSignalingConnection", "JoinAndReceiveIndex", "ReceiveTURNCredentials">>
      /\ ToSet(c["Signaling"].sub) =
           {"OpenSignalingConnection", "JoinAndReceiveIndex", "ReceiveTURNCredentials"}
      /\ c["updateTimeout"].kind = "timeout"
      /\ ToSet(c["updateTimeout"].sub) = {"UpdateSession"}
  <2>1. c["Signaling"].sub =
          <<"OpenSignalingConnection", "JoinAndReceiveIndex", "ReceiveTURNCredentials">>
    BY <1>2, Kinds
  <2>2. c["updateTimeout"].sub = <<"UpdateSession">>
    BY <1>2, Kinds
  <2>3. c["Signaling"].kind = "serial" /\ c["updateTimeout"].kind = "timeout"
    BY <1>2, Kinds
  <2> QED  BY <2>1, <2>2, <2>3, TupleSets
<1>6. /\ c["UpdateSession"].kind = "serial"
      /\ ToSet(c["UpdateSession"].sub) =
           {"AttachMediaInput", "CreateSDP", "SetLocalDescription",
            "FinishGatheringICECandidates", "SubscribeAndReceiveSubscribeAck",
            "SetRemoteDescription"}
  <2>1. c["UpdateSession"].sub =
          <<"AttachMediaInput", "CreateSDP", "SetLocalDescription",
            "FinishGatheringICECandidates", "SubscribeAndReceiveSubscribeAck",
            "SetRemoteDescription">>
    BY <1>2, <1>3, Kinds
  <2>2. c["UpdateSession"].kind = "serial"
    BY <1>2, <1>3, Kinds
  <2> QED  BY <2>1, <2>2, TupleSets
<1>7. \A g \in DOMAIN c : /\ c[g].kind # "once"
                          /\ "open" \notin ToSet(c[g].sub)
                          /\ "CleanStoppedSession" \notin ToSet(c[g].sub)
  BY <1>1, <1>4, <1>5, <1>6
<1>8. /\ c["Signaling"].sub[1] = "OpenSignalingConnection"
      /\ 2 \in DOMAIN c["Signaling"].sub /\ c["Signaling"].sub[2] = "JoinAndReceiveIndex"
  BY <1>5
<1>9. 2..(2 - 1) = {} /\ 2 > 1
  OBVIOUS
<1>10. Joins(c)
  BY <1>1, <1>5, <1>7, <1>8, <1>9 DEF Joins
<1>20. Rooted(c)
  BY <1>1, <1>3, <1>4, <1>5, <1>6, <1>7, <1>8, <1>9, <1>10 DEF Rooted
<1> QED  BY <1>1, <1>7, <1>10, <1>20 DEF Simple, c

(* So is an update. *)
LEMMA UpdateIs == Simple(actionUpdateWithRenegotiation)
<1> DEFINE c == actionUpdateWithRenegotiation
<1>1. DOMAIN c = {"root", "updateTimeout", "UpdateSession"}
  BY DEF actionUpdateWithRenegotiation
<1>2. /\ c["root"] = Serial(<<"ReceiveVideoInput", "updateTimeout">>)
      /\ c["updateTimeout"] = Timeout("UpdateSession")
      /\ c["UpdateSession"] =
           Serial(<<"AttachMediaInput", "CreateSDP", "SetLocalDescription",
                    "FinishGatheringICECandidates", "SubscribeAndReceiveSubscribeAck",
                    "SetRemoteDescription">>)
  BY DEF actionUpdateWithRenegotiation, UpdateSession
<1> HIDE DEF c
<1>3. /\ c["root"].kind = "serial" /\ ToSet(c["root"].sub) = {"ReceiveVideoInput", "updateTimeout"}
      /\ c["updateTimeout"].kind = "timeout"
      /\ ToSet(c["updateTimeout"].sub) = {"UpdateSession"}
      /\ c["UpdateSession"].kind = "serial"
      /\ ToSet(c["UpdateSession"].sub) =
           {"AttachMediaInput", "CreateSDP", "SetLocalDescription",
            "FinishGatheringICECandidates", "SubscribeAndReceiveSubscribeAck",
            "SetRemoteDescription"}
  <2>1. c["root"].sub = <<"ReceiveVideoInput", "updateTimeout">>
    BY <1>2, Kinds
  <2>2. c["updateTimeout"].sub = <<"UpdateSession">>
    BY <1>2, Kinds
  <2>3. c["UpdateSession"].sub =
          <<"AttachMediaInput", "CreateSDP", "SetLocalDescription",
            "FinishGatheringICECandidates", "SubscribeAndReceiveSubscribeAck",
            "SetRemoteDescription">>
    BY <1>2, Kinds
  <2>4. /\ c["root"].kind = "serial"
        /\ c["updateTimeout"].kind = "timeout"
        /\ c["UpdateSession"].kind = "serial"
    BY <1>2, Kinds
  <2> QED  BY <2>1, <2>2, <2>3, <2>4, TupleSets
<1>4. \A g \in DOMAIN c : /\ c[g].kind # "once"
                          /\ "open" \notin ToSet(c[g].sub)
                          /\ "JoinAndReceiveIndex" \notin ToSet(c[g].sub)
  BY <1>1, <1>3
<1>20. Rooted(c)
  BY <1>1, <1>3, <1>4 DEF Rooted
<1> QED  BY <1>1, <1>4, <1>20 DEF Simple, c

(* So is a disconnect. *)
LEMMA DisconnectIs == Simple(actionDisconnect)
<1> DEFINE c == actionDisconnect
<1>1. DOMAIN c = {"root", "AudioVideoStop", "leaveTimeout", "AudioVideoClean", "cleanTimeout"}
  BY DEF actionDisconnect
<1>2. /\ c["root"] = InTurn(<<"AudioVideoStop", "AudioVideoClean">>)
      /\ c["AudioVideoStop"] = Serial(<<"leaveTimeout">>)
      /\ c["leaveTimeout"] = Timeout("LeaveAndReceiveLeaveAck")
      /\ c["AudioVideoClean"] = Serial(<<"cleanTimeout">>)
      /\ c["cleanTimeout"] = Timeout("CleanStoppedSession")
  BY DEF actionDisconnect
<1> HIDE DEF c
<1>3. /\ c["root"].kind = "each"
      /\ ToSet(c["root"].sub) = {"AudioVideoStop", "AudioVideoClean"}
      /\ c["AudioVideoStop"].kind = "serial" /\ ToSet(c["AudioVideoStop"].sub) = {"leaveTimeout"}
      /\ c["leaveTimeout"].kind = "timeout"
      /\ ToSet(c["leaveTimeout"].sub) = {"LeaveAndReceiveLeaveAck"}
      /\ c["AudioVideoClean"].kind = "serial"
      /\ ToSet(c["AudioVideoClean"].sub) = {"cleanTimeout"}
      /\ c["cleanTimeout"].kind = "timeout"
      /\ ToSet(c["cleanTimeout"].sub) = {"CleanStoppedSession"}
  <2>1. c["root"].sub = <<"AudioVideoStop", "AudioVideoClean">>
    BY <1>2, Kinds
  <2>2. c["AudioVideoStop"].sub = <<"leaveTimeout">>
    BY <1>2, Kinds
  <2>3. c["leaveTimeout"].sub = <<"LeaveAndReceiveLeaveAck">>
    BY <1>2, Kinds
  <2>4. c["AudioVideoClean"].sub = <<"cleanTimeout">>
    BY <1>2, Kinds
  <2>5. c["cleanTimeout"].sub = <<"CleanStoppedSession">>
    BY <1>2, Kinds
  <2>6. /\ c["root"].kind = "each"
        /\ c["AudioVideoStop"].kind = "serial"
        /\ c["leaveTimeout"].kind = "timeout"
        /\ c["AudioVideoClean"].kind = "serial"
        /\ c["cleanTimeout"].kind = "timeout"
    BY <1>2, Kinds
  <2> QED  BY <2>1, <2>2, <2>3, <2>4, <2>5, <2>6, TupleSets
<1>4. \A g \in DOMAIN c : /\ c[g].kind # "once"
                          /\ "open" \notin ToSet(c[g].sub)
                          /\ "JoinAndReceiveIndex" \notin ToSet(c[g].sub)
  BY <1>1, <1>3
<1>20. Rooted(c)
  BY <1>1, <1>3, <1>4 DEF Rooted
<1> QED  BY <1>1, <1>4, <1>20 DEF Simple, c

(* So is a promotion. *)
LEMMA PromoteIs == Simple(actionPromoteToPrimaryMeeting)
<1> DEFINE c == actionPromoteToPrimaryMeeting
<1>1. DOMAIN c = {"root", "promoteTimeout"}
  BY DEF actionPromoteToPrimaryMeeting
<1>2. /\ c["root"] = Serial(<<"promoteTimeout">>)
      /\ c["promoteTimeout"] = Timeout("PromoteToPrimaryMeeting")
  BY DEF actionPromoteToPrimaryMeeting
<1> HIDE DEF c
<1>3. /\ c["root"].kind = "serial" /\ ToSet(c["root"].sub) = {"promoteTimeout"}
      /\ c["promoteTimeout"].kind = "timeout"
      /\ ToSet(c["promoteTimeout"].sub) = {"PromoteToPrimaryMeeting"}
  <2>1. c["root"].sub = <<"promoteTimeout">>
    BY <1>2, Kinds
  <2>2. c["promoteTimeout"].sub = <<"PromoteToPrimaryMeeting">>
    BY <1>2, Kinds
  <2>3. c["root"].kind = "serial" /\ c["promoteTimeout"].kind = "timeout"
    BY <1>2, Kinds
  <2> QED  BY <2>1, <2>2, <2>3, TupleSets
<1>4. \A g \in DOMAIN c : /\ c[g].kind # "once"
                          /\ "open" \notin ToSet(c[g].sub)
                          /\ "JoinAndReceiveIndex" \notin ToSet(c[g].sub)
  BY <1>1, <1>3
<1>20. Rooted(c)
  BY <1>1, <1>3, <1>4 DEF Rooted
<1> QED  BY <1>1, <1>4, <1>20 DEF Simple, c

(* The operations without promises. *)
LEMMA OthersAre ==
  ASSUME plan \in DOMAIN Plan \ Promised
  PROVE  /\ Onces = {} /\ "open" \notin Node
         /\ \A X : "root" \in X /\ (\A g \in Groups : g \in X => ToSet(Sub(g)) \subseteq X) =>
                     Node \subseteq X
         /\ "JoinAndReceiveIndex" \in Node =>
              /\ "Signaling" \in Groups /\ Kind("Signaling") = "serial"
              /\ Sub("Signaling")[1] = "OpenSignalingConnection"
              /\ \E k \in DOMAIN Sub("Signaling") :
                   /\ k > 1 /\ Sub("Signaling")[k] = "JoinAndReceiveIndex"
                   /\ \A i \in 2..(k - 1) :
                        Sub("Signaling")[i] \in {"ListenForVolumeIndicators",
                                                 "SendAndReceiveDataMessages"}
              /\ "CleanStoppedSession" \notin Leaves
<1> DEFINE c == Plan[plan]
<1>1. Simple(c)
  BY PlanIs, StartWithTasksIs, ReconnectIs, UpdateIs, DisconnectIs, PromoteIs DEF Promised
<1>2. Groups = DOMAIN c /\ \A g : Kind(g) = c[g].kind /\ Sub(g) = c[g].sub
  BY DEF Groups, Kind, Sub
<1> HIDE DEF c
<1>3. Node = Groups \cup UNION {ToSet(Sub(g)) : g \in Groups}
  BY DEF Node, Nodes, Groups, Sub
<1>4. /\ "open" \notin Groups
      /\ \A g \in Groups : Kind(g) # "once" /\ "open" \notin ToSet(Sub(g))
  BY <1>1, <1>2 DEF Simple
<1>5. Onces = {} /\ "open" \notin Node
  BY <1>3, <1>4 DEF Onces
<1>6. ASSUME "JoinAndReceiveIndex" \in Node  PROVE Joins(c)
  <2>1. "JoinAndReceiveIndex" \in DOMAIN Task
    BY DEF Task
  <2>2. "JoinAndReceiveIndex" \notin Groups
    BY <1>6, <2>1, TreeFacts
  <2>3. PICK g \in Groups : "JoinAndReceiveIndex" \in ToSet(Sub(g))
    BY <1>3, <1>6, <2>2
  <2> QED  BY <1>1, <1>2, <2>3 DEF Simple
<1>7. ASSUME Joins(c)  PROVE "CleanStoppedSession" \notin Leaves
  BY <1>2, <1>3, <1>7 DEF Joins, Leaves
<1>8. Joins(c) => /\ "Signaling" \in Groups /\ Kind("Signaling") = "serial"
                  /\ Sub("Signaling")[1] = "OpenSignalingConnection"
                  /\ \E k \in DOMAIN Sub("Signaling") :
                       /\ k > 1 /\ Sub("Signaling")[k] = "JoinAndReceiveIndex"
                       /\ \A i \in 2..(k - 1) :
                            Sub("Signaling")[i] \in {"ListenForVolumeIndicators",
                                                     "SendAndReceiveDataMessages"}
  BY <1>2 DEF Joins
<1>9. \A X : "root" \in X /\ (\A g \in Groups : g \in X => ToSet(Sub(g)) \subseteq X) =>
               Node \subseteq X
  <2> SUFFICES ASSUME NEW X, "root" \in X, \A g \in Groups : g \in X => ToSet(Sub(g)) \subseteq X
               PROVE  Node \subseteq X
    OBVIOUS
  <2>1. Groups \subseteq X
    BY <1>1, <1>2 DEF Simple, Rooted
  <2> QED  BY <1>3, <2>1
<1> QED  BY <1>5, <1>6, <1>7, <1>8, <1>9

-----------------------------------------------------------------------------
(* What run() and cancel() reach. *)

(* Reached is a set of tasks that is what its definition says of it. *)
LEMMA ReachedIs ==
  ASSUME plan \in DOMAIN Plan, NEW n \in Node, NEW t
  PROVE  /\ n \in Reached(n, t) /\ Reached(n, t) \subseteq Node
         /\ \A d \in Node : d \in Reached(n, t) <=>
              \/ d = n
              \/ \E g \in Groups : /\ d \in ToSet(Sub(g)) /\ g \in Reached(n, t)
                                   /\ Fresh(g, t) /\ d \in RunsFirst(g)
<1> DEFINE Reaches(X, d) ==
             d = n \/ \E g \in Parents[plan][d] : g \in X /\ Fresh(g, t) /\ d \in RunsFirst(g)
           Closed == {X \in SUBSET Node : \A d \in Node : Reaches(X, d) => d \in X}
           Least == {d \in Node : \A X \in Closed : d \in X}
           f == [d \in Node |-> d \in Least]
           Is(h) == h = [d \in Node |->
             d = n \/ \E g \in Parents[plan][d] : h[g] /\ Fresh(g, t) /\ d \in RunsFirst(g)]
<1>1. \A d \in Node : \A g \in Parents[plan][d] : g \in Node
  BY TreeFacts
<1>2. \A X, Y \in SUBSET Node : X \subseteq Y => \A d \in Node : Reaches(X, d) => Reaches(Y, d)
  OBVIOUS
<1>3. \A d \in Node : Reaches(Least, d) => d \in Least
  <2> SUFFICES ASSUME NEW d \in Node, Reaches(Least, d), NEW X \in Closed
               PROVE  d \in X
    OBVIOUS
  <2>1. Least \subseteq X
    OBVIOUS
  <2>2. Reaches(X, d)
    BY <1>2, <2>1
  <2> QED  BY <2>2
<1>4. \A d \in Node : d \in Least => Reaches(Least, d)
  <2> DEFINE Next_ == {d \in Node : Reaches(Least, d)}
  <2>1. Next_ \subseteq Least
    BY <1>3
  <2>2. \A d \in Node : Reaches(Next_, d) => d \in Next_
    BY <1>2, <2>1
  <2>3. Next_ \in Closed
    BY <2>2
  <2> QED  BY <2>3
<1> HIDE DEF Closed, Least
<1>5. Is(f)
  <2>1. Least \subseteq Node
    BY DEF Least
  <2>2. \A d \in Node : f[d] = Reaches(Least, d)
    BY <1>3, <1>4
  <2>3. \A d \in Node : Reaches(Least, d) =
          (d = n \/ \E g \in Parents[plan][d] : f[g] /\ Fresh(g, t) /\ d \in RunsFirst(g))
    BY <1>1
  <2> QED  BY <2>2, <2>3
<1> DEFINE r == CHOOSE h : Is(h)
<1>6. Is(r)
  BY <1>5
<1>7. Reached(n, t) = {d \in Node : r[d]}
  BY DEF Reached
<1> HIDE DEF f, r
<1>8. \A d \in Node : r[d] =
        (d = n \/ \E g \in Parents[plan][d] : r[g] /\ Fresh(g, t) /\ d \in RunsFirst(g))
  BY <1>6
<1>9. \A d \in Node : \A g : g \in Parents[plan][d] <=> g \in Groups /\ d \in ToSet(Sub(g))
  BY TreeFacts
<1>10. \A g \in Groups : g \in Node
  BY TreeFacts
<1> QED  BY <1>7, <1>8, <1>9, <1>10

(* So is Canceled. *)
LEMMA CanceledIs ==
  ASSUME plan \in DOMAIN Plan, NEW n \in Node, NEW t
  PROVE  /\ Canceled(n, t) \subseteq Node
         /\ \A d \in Node : d \in Canceled(n, t) <=>
              /\ t[d].status \in {"idle", "running"}
              /\ \/ d = n
                 \/ \E g \in Groups : /\ d \in ToSet(Sub(g)) /\ g \in Canceled(n, t)
                                      /\ d \in CancelsNow(g, t)
<1> DEFINE Reaches(X, d) ==
             /\ t[d].status \in {"idle", "running"}
             /\ d = n \/ \E g \in Parents[plan][d] : g \in X /\ d \in CancelsNow(g, t)
           Closed == {X \in SUBSET Node : \A d \in Node : Reaches(X, d) => d \in X}
           Least == {d \in Node : \A X \in Closed : d \in X}
           f == [d \in Node |-> d \in Least]
           Is(h) == h = [d \in Node |->
             /\ t[d].status \in {"idle", "running"}
             /\ d = n \/ \E g \in Parents[plan][d] : h[g] /\ d \in CancelsNow(g, t)]
<1>1. \A d \in Node : \A g \in Parents[plan][d] : g \in Node
  BY TreeFacts
<1>2. \A X, Y \in SUBSET Node : X \subseteq Y => \A d \in Node : Reaches(X, d) => Reaches(Y, d)
  OBVIOUS
<1>3. \A d \in Node : Reaches(Least, d) => d \in Least
  <2> SUFFICES ASSUME NEW d \in Node, Reaches(Least, d), NEW X \in Closed
               PROVE  d \in X
    OBVIOUS
  <2>1. Least \subseteq X
    OBVIOUS
  <2>2. Reaches(X, d)
    BY <1>2, <2>1
  <2> QED  BY <2>2
<1>4. \A d \in Node : d \in Least => Reaches(Least, d)
  <2> DEFINE Next_ == {d \in Node : Reaches(Least, d)}
  <2>1. Next_ \subseteq Least
    BY <1>3
  <2>2. \A d \in Node : Reaches(Next_, d) => d \in Next_
    BY <1>2, <2>1
  <2>3. Next_ \in Closed
    BY <2>2
  <2> QED  BY <2>3
<1> HIDE DEF Closed, Least
<1>5. Is(f)
  <2>1. \A d \in Node : d \in Least <=> Reaches(Least, d)
    BY <1>3, <1>4
  <2>2. \A d \in Node : f[d] = (d \in Least)
    OBVIOUS
  <2>3. f = [d \in Node |-> f[d]] /\ \A d \in Node : f[d] \in BOOLEAN
    OBVIOUS
  <2> HIDE DEF f
  <2>4. \A d \in Node : f[d] <=>
          (/\ t[d].status \in {"idle", "running"}
           /\ d = n \/ \E g \in Parents[plan][d] : f[g] /\ d \in CancelsNow(g, t))
    BY <1>1, <2>1, <2>2
  <2>5. \A d \in Node : f[d] =
          (/\ t[d].status \in {"idle", "running"}
           /\ d = n \/ \E g \in Parents[plan][d] : f[g] /\ d \in CancelsNow(g, t))
    <3> DEFINE G(d) ==
                 /\ t[d].status \in {"idle", "running"}
                 /\ d = n \/ \E g \in Parents[plan][d] : f[g] /\ d \in CancelsNow(g, t)
    <3>0. \A d \in Node : G(d) \in BOOLEAN
      OBVIOUS
    <3>1. \A d \in Node : f[d] <=> G(d)
      BY <2>4
    <3> HIDE DEF G
    <3>2. ASSUME NEW d \in Node  PROVE f[d] = G(d)
      <4>1. \A x, y \in BOOLEAN : (x <=> y) => x = y
        OBVIOUS
      <4>2. f[d] \in BOOLEAN /\ G(d) \in BOOLEAN /\ (f[d] <=> G(d))
        BY <2>3, <3>0, <3>1
      <4> QED  BY <4>1, <4>2, Zenon
    <3> QED  BY <3>2 DEF G
  <2> QED  BY <2>3, <2>5
<1> DEFINE r == CHOOSE h : Is(h)
<1>6. Is(r)
  BY <1>5
<1>7. Canceled(n, t) = {d \in Node : r[d]}
  BY DEF Canceled
<1> HIDE DEF f, r
<1>8. \A d \in Node : r[d] =
        (/\ t[d].status \in {"idle", "running"}
         /\ d = n \/ \E g \in Parents[plan][d] : r[g] /\ d \in CancelsNow(g, t))
  BY <1>6
<1>9. \A d \in Node : \A g : g \in Parents[plan][d] <=> g \in Groups /\ d \in ToSet(Sub(g))
  BY TreeFacts
<1>10. \A g \in Groups : g \in Node
  BY TreeFacts
<1> QED  BY <1>7, <1>8, <1>9, <1>10

-----------------------------------------------------------------------------
(* The invariants of the tasks, one group or one task and its subtasks at a time. *)

Record == [status : {"idle", "running", "canceled", "finished"},
           promise : {"none", "pending", "kept", "broken"}]
State(t) == t \in [Node -> Record]

None(t, n) == t[n].promise = "none"
Waiting(t, n) == t[n].promise = "pending"
IsKept(t, n) == t[n].promise = "kept"
IsBroken(t, n) == t[n].promise = "broken"
IsCanceled(t, n) == t[n].status = "canceled"

(* The status of a task and its promise. *)
StatusOf(t, n) ==
  /\ n \in Onces => /\ t[n].status \in {"idle", "canceled"}
                    /\ IsCanceled(t, n) => ~None(t, n)
  /\ n \notin Onces =>
       /\ t[n].status = "idle" => None(t, n)
       /\ t[n].status = "running" => Waiting(t, n)
       /\ t[n].status = "finished" => IsKept(t, n) \/ IsBroken(t, n)
  /\ n \in Leaves => /\ Task[n].cancel # "ignored" /\ Waiting(t, n) => ~IsCanceled(t, n)
                     /\ ~Task[n].waits => ~Waiting(t, n)

(* Subtasks run after their group, but for the task of an early connection. *)
ChildNone(t, g) == None(t, g) => \A d \in ToSet(Sub(g)) \ {"open"} : None(t, d)
FirstBegun(t, g) ==
  /\ Kind(g) = "once" /\ ~None(t, g) => \A d \in Dependencies(g) : ~None(t, d)
  /\ Kind(g) # "once" /\ (Waiting(t, g) \/ IsKept(t, g)) =>
       \A d \in RunsFirst(g) : ~None(t, d)

(* A group in series has run its subtasks up to one. *)
InSeries(t, g) ==
  Kind(g) \in {"serial", "each"} =>
    \A i, j \in DOMAIN Sub(g) : i < j /\ ~None(t, Sub(g)[j]) =>
      IsKept(t, Sub(g)[i]) \/ (Kind(g) = "each" /\ IsBroken(t, Sub(g)[i]))

(* What a group that ended well has behind it. *)
KeptSubs(t, g) ==
  IsKept(t, g) =>
    /\ Kind(g) = "once" => IsKept(t, HeadOf(g))
    /\ Kind(g) = "each" => \A d \in ToSet(Sub(g)) : IsKept(t, d) \/ IsBroken(t, d)
    /\ Kind(g) \notin {"once", "each"} => \A d \in ToSet(Sub(g)) : IsKept(t, d)

(* No group ends before its subtasks, but for a dependency that is not the    *)
(* first, and a task that was canceled and is left to itself.                 *)
ChildPending(t, g) ==
  Kind(g) # "once" => \A d \in ToSet(Sub(g)) :
    Waiting(t, d) /\ (d = "open" => ~None(t, g)) => Waiting(t, g)
DepPending(t, g) ==
  Kind(g) = "once" => \A d \in Dependencies(g) \ {"receiveAudioInput"} :
    Waiting(t, d) => Waiting(t, g)
HeadPending(t, g) ==
  Kind(g) = "once" /\ Waiting(t, HeadOf(g)) => Waiting(t, g) \/ IsCanceled(t, HeadOf(g))

(* A OnceTask runs its task after its dependencies, and not once it ended. *)
HeadAfter(t, g) ==
  Kind(g) = "once" /\ ~None(t, HeadOf(g)) => \A d \in Dependencies(g) : IsKept(t, d)
HeadNever(t, g) ==
  Kind(g) = "once" /\ (IsKept(t, g) \/ IsBroken(t, g)) /\ None(t, HeadOf(g)) =>
    IsCanceled(t, HeadOf(g)) \/ \E d \in Dependencies(g) : IsBroken(t, d)
HeadFirst(t, g) ==
  Kind(g) = "once" /\ Dependencies(g) = {} /\ IsCanceled(t, HeadOf(g)) => ~None(t, HeadOf(g))

(* A group that is canceled while it runs has canceled what it waits for. *)
CancelDown(t, g) ==
  Kind(g) \notin {"once", "each"} /\ IsCanceled(t, g) /\ Waiting(t, g) =>
    \A d \in ToSet(Sub(g)) : Waiting(t, d) => IsCanceled(t, d)

GroupInv(t, g) ==
  /\ ChildNone(t, g) /\ FirstBegun(t, g) /\ InSeries(t, g) /\ KeptSubs(t, g)
  /\ ChildPending(t, g) /\ DepPending(t, g) /\ HeadPending(t, g)
  /\ HeadAfter(t, g) /\ HeadNever(t, g) /\ HeadFirst(t, g) /\ CancelDown(t, g)
TreeInv(t) ==
  /\ State(t)
  /\ \A n \in Node : StatusOf(t, n)
  /\ \A g \in Groups : GroupInv(t, g)

(* The task of an early connection: the first one of a start's Signaling group. *)
LEMMA OpenFacts ==
  ASSUME plan \in DOMAIN Plan, NEW g \in Groups, "open" \in ToSet(Sub(g))
  PROVE  /\ plan \in Promised /\ g = "Signaling" /\ Kind(g) = "serial" /\ HeadOf(g) = "open"
         /\ "signaling" \in Onces /\ HeadOf("signaling") = g /\ Dependencies("signaling") = {}
<1>1. plan \in Promised
  <2>1. "open" \in Node
    BY SubFacts
  <2> QED  BY <2>1, OthersAre
<1>2. /\ "Signaling" \in Groups /\ Kind("Signaling") = "serial"
      /\ Sub("Signaling")[1] = "open" /\ "signaling" \in Onces
      /\ Sub("signaling") = <<"Signaling">>
  BY <1>1, StartIs DEF Onces
<1>3. HeadOf("Signaling") = "open" /\ "open" \in ToSet(Sub("Signaling"))
  BY <1>2, SubFacts
<1>4. "open" \in Node /\ g = "Signaling"
  BY <1>2, <1>3, SubFacts, TreeFacts
<1>5. HeadOf("signaling") = "Signaling" /\ Dependencies("signaling") = {}
  <2>1. "signaling" \in Groups
    BY <1>2 DEF Onces
  <2>2. ToSet(Sub("signaling")) = {"Signaling"}
    BY <1>2, TupleSets
  <2>3. HeadOf("signaling") = "Signaling"
    BY <1>2, <2>1, SubFacts
  <2> QED  BY <2>1, <2>2, <2>3, SubFacts
<1> QED  BY <1>1, <1>2, <1>3, <1>4, <1>5

(* The subtasks a group runs first, by the kind of the group. *)
LEMMA RunsFirstIs ==
  ASSUME plan \in DOMAIN Plan, NEW g \in Groups
  PROVE  /\ RunsFirst(g) \subseteq ToSet(Sub(g))
         /\ Kind(g) \in {"serial", "each"} => RunsFirst(g) = {HeadOf(g)}
         /\ Kind(g) = "once" => RunsFirst(g) = Dependencies(g)
         /\ Kind(g) \notin {"serial", "each", "once"} => RunsFirst(g) = ToSet(Sub(g))
<1>1. /\ HeadOf(g) \in ToSet(Sub(g)) /\ Dependencies(g) \subseteq ToSet(Sub(g))
      /\ Kind(g) \in {"serial", "each", "timeout", "parallel", "once"}
  BY SubFacts, TreeFacts
<1> QED  BY <1>1 DEF RunsFirst, HeadOf, Dependencies

(* A task can be run: it has not begun, and the group it belongs to has come  *)
(* so far; or it is the task of an early connection.                           *)
CanRun(t, n) ==
  /\ None(t, n)
  /\ \A g \in Groups : n \in ToSet(Sub(g)) =>
       \/ n = "open" /\ None(t, g)
       \/ /\ Kind(g) \in {"serial", "each"} /\ Waiting(t, g)
          /\ Kind(g) = "serial" => ~IsCanceled(t, g)
          /\ \A i, j \in DOMAIN Sub(g) : i < j /\ n = Sub(g)[j] =>
               IsKept(t, Sub(g)[i]) \/ (Kind(g) = "each" /\ IsBroken(t, Sub(g)[i]))
       \/ /\ Kind(g) = "once" /\ n = HeadOf(g) /\ ~None(t, g)
          /\ \A d \in Dependencies(g) : IsKept(t, d)
          /\ Waiting(t, g) \/ IsCanceled(t, n)

(* What run() of n does: u is the state of the tasks after it, R what it reaches. *)
Begins(t, u, d) ==
  /\ None(t, d) /\ ~None(u, d)
  /\ IsCanceled(t, d) => u[d] = [status |-> "canceled", promise |-> "broken"]
  /\ ~IsCanceled(t, d) =>
       /\ t[d].status = "idle"
       /\ d \in Onces => u[d] = [status |-> "idle", promise |-> "pending"]
       /\ d \in Leaves /\ ~Task[d].waits => u[d] = [status |-> "finished", promise |-> "kept"]
       /\ d \notin Onces /\ ~(d \in Leaves /\ ~Task[d].waits) =>
            u[d] = [status |-> "running", promise |-> "pending"]
Ran(t, u, n, R) ==
  /\ State(u) /\ R \subseteq Node /\ n \in R
  /\ \A d \in Node \ R : u[d] = t[d]
  /\ \A d \in R : Begins(t, u, d) \/ (d = "open" /\ d # n /\ ~None(t, d) /\ u[d] = t[d])
  /\ \A d \in R : \/ d = n
                  \/ \E g \in Groups \cap R : /\ None(t, g) /\ ~IsCanceled(t, g)
                                              /\ d \in RunsFirst(g)
  /\ \A g \in Groups \cap R : None(t, g) /\ ~IsCanceled(t, g) => RunsFirst(g) \subseteq R

(* run() of a task that can be run. *)
LEMMA RunIs ==
  ASSUME plan \in DOMAIN Plan, NEW t, TreeInv(t), NEW n \in Node, CanRun(t, n), Run(n, t)
  PROVE  Ran(t, tasks', n, Reached(n, t))
<1> DEFINE R == Reached(n, t)
           u == tasks'
<1>1. u = [d \in Node |-> IF d \in R THEN baseRun(d, t[d]) ELSE t[d]]
  BY DEF Run
<1>2. \A d \in Node : t[d] \in Record /\ StatusOf(t, d)
  BY DEF TreeInv, State
<1>3. n \in R /\ R \subseteq Node
  BY ReachedIs
<1>4. \A d \in Groups : Fresh(d, t) <=> None(t, d) /\ ~IsCanceled(t, d)
  <2> SUFFICES ASSUME NEW d \in Groups PROVE Fresh(d, t) <=> None(t, d) /\ ~IsCanceled(t, d)
    OBVIOUS
  <2>1. d \in Node /\ (IsOnce(d) <=> d \in Onces)
    BY TreeFacts DEF IsOnce, Onces
  <2>2. StatusOf(t, d) /\ t[d].status \in {"idle", "running", "canceled", "finished"}
    BY <1>2, <2>1 DEF Record
  <2> QED  BY <2>1, <2>2 DEF Fresh, StatusOf, None, IsCanceled, Waiting, IsKept, IsBroken
<1>5. \A d \in R : \/ d = n
                   \/ \E g \in Groups \cap R : /\ None(t, g) /\ ~IsCanceled(t, g)
                                               /\ d \in RunsFirst(g)
  <2> SUFFICES ASSUME NEW d \in R, d # n
               PROVE  \E g \in Groups \cap R : /\ None(t, g) /\ ~IsCanceled(t, g)
                                               /\ d \in RunsFirst(g)
    OBVIOUS
  <2>1. PICK g \in Groups : g \in R /\ Fresh(g, t) /\ d \in RunsFirst(g)
    BY <1>3, ReachedIs
  <2> QED  BY <1>4, <2>1
<1>6. \A g \in Groups \cap R : None(t, g) /\ ~IsCanceled(t, g) => RunsFirst(g) \subseteq R
  <2> SUFFICES ASSUME NEW g \in Groups \cap R, None(t, g), ~IsCanceled(t, g), NEW d \in RunsFirst(g)
               PROVE  d \in R
    OBVIOUS
  <2>1. d \in ToSet(Sub(g)) /\ d \in Node
    BY RunsFirstIs, SubFacts
  <2>2. Fresh(g, t)
    BY <1>4
  <2> QED  BY <2>1, <2>2, ReachedIs
<1>7. \A d \in R : None(t, d) \/ (d = "open" /\ d # n)
  <2> SUFFICES ASSUME NEW d \in R, d # n PROVE None(t, d) \/ d = "open"
    BY DEF CanRun
  <2>1. PICK g \in Groups \cap R : None(t, g) /\ d \in RunsFirst(g)
    BY <1>5
  <2>2. d \in ToSet(Sub(g)) /\ ChildNone(t, g)
    BY <2>1, RunsFirstIs DEF TreeInv, GroupInv
  <2> QED  BY <2>1, <2>2 DEF ChildNone
<1>8. \A d \in R : Begins(t, u, d) \/ (d = "open" /\ d # n /\ ~None(t, d) /\ u[d] = t[d])
  <2> SUFFICES ASSUME NEW d \in R
               PROVE  Begins(t, u, d) \/ (d = "open" /\ d # n /\ ~None(t, d) /\ u[d] = t[d])
    OBVIOUS
  <2>1. /\ d \in Node /\ u[d] = baseRun(d, t[d]) /\ t[d] \in Record /\ StatusOf(t, d)
    BY <1>1, <1>2, <1>3
  <2>2. /\ IsOnce(d) <=> d \in Onces
        /\ d \in DOMAIN Task <=> d \in Leaves
        /\ ~(d \in Onces /\ d \in Leaves)
    BY <2>1, TreeFacts DEF IsOnce, Onces, Leaves
  <2>3. /\ t[d] = [status |-> t[d].status, promise |-> t[d].promise]
        /\ t[d].status \in {"idle", "running", "canceled", "finished"}
        /\ t[d].promise \in {"none", "pending", "kept", "broken"}
    BY <2>1 DEF Record
  <2>4. CASE None(t, d) /\ IsCanceled(t, d)
    <3>1. ~(d \in Onces)
      BY <2>1, <2>4 DEF StatusOf
    <3>2. u[d] = [t[d] EXCEPT !.promise = "broken"]
      BY <2>1, <2>2, <2>4, <3>1 DEF baseRun, IsCanceled
    <3>3. u[d] = [status |-> "canceled", promise |-> "broken"]
      BY <2>3, <2>4, <3>2 DEF IsCanceled
    <3> QED  BY <2>4, <3>3 DEF Begins, None
  <2>5. CASE None(t, d) /\ ~IsCanceled(t, d)
    <3>1. t[d].status = "idle"
      BY <2>1, <2>3, <2>5 DEF StatusOf, None, IsCanceled, Waiting, IsKept, IsBroken
    <3>2. CASE d \in Onces
      <4>1. u[d] = [t[d] EXCEPT !.promise = "pending"]
        BY <2>1, <2>2, <2>5, <3>2 DEF baseRun, None
      <4>2. u[d] = [status |-> "idle", promise |-> "pending"]
        BY <2>3, <3>1, <4>1
      <4> QED  BY <2>2, <2>5, <3>1, <3>2, <4>2 DEF Begins, None, IsCanceled
    <3>3. CASE d \notin Onces
      <4>1. u[d] = IF d \in Leaves /\ ~Task[d].waits
                   THEN [status |-> "finished", promise |-> "kept"]
                   ELSE [status |-> "running", promise |-> "pending"]
        BY <2>1, <2>2, <3>1, <3>3 DEF baseRun
      <4> QED  BY <2>5, <3>1, <3>3, <4>1 DEF Begins, None, IsCanceled
    <3> QED  BY <3>2, <3>3
  <2>6. CASE ~None(t, d)
    <3>1. d = "open" /\ d # n
      BY <1>7, <2>6
    <3>2. d \in Onces
      <4>1. PICK g \in Groups : d \in ToSet(Sub(g))
        BY <1>5, <3>1, RunsFirstIs
      <4>2. plan \in Promised
        BY <3>1, <4>1, OpenFacts
      <4> QED  BY <3>1, <4>2, StartIs DEF Onces
    <3>3. u[d] = t[d]
      BY <2>1, <2>2, <2>6, <3>2 DEF baseRun, None
    <3> QED  BY <2>6, <3>1, <3>3
  <2> QED  BY <2>4, <2>5, <2>6
<1>9. State(u)
  <2>1. \A d \in Node : u[d] \in Record
    <3> SUFFICES ASSUME NEW d \in Node PROVE u[d] \in Record
      OBVIOUS
    <3>1. CASE d \notin R
      BY <1>1, <1>2, <3>1
    <3>2. CASE d \in R /\ u[d] = t[d]
      BY <1>2, <3>2
    <3>3. CASE d \in R /\ Begins(t, u, d)
      BY <3>3 DEF Begins, Record
    <3> QED  BY <1>8, <3>1, <3>2, <3>3
  <2> QED  BY <1>1, <2>1 DEF State
<1>10. \A d \in Node \ R : u[d] = t[d]
  BY <1>1
<1> QED  BY <1>3, <1>5, <1>6, <1>8, <1>9, <1>10 DEF Ran

(* A promise is one thing at a time. *)
LEMMA PromiseIs ==
  ASSUME NEW t, State(t), NEW d \in Node
  PROVE  /\ None(t, d) \/ Waiting(t, d) \/ IsKept(t, d) \/ IsBroken(t, d)
         /\ ~(None(t, d) /\ Waiting(t, d)) /\ ~(None(t, d) /\ IsKept(t, d))
         /\ ~(None(t, d) /\ IsBroken(t, d)) /\ ~(Waiting(t, d) /\ IsKept(t, d))
         /\ ~(Waiting(t, d) /\ IsBroken(t, d)) /\ ~(IsKept(t, d) /\ IsBroken(t, d))
BY DEF State, Record, None, Waiting, IsKept, IsBroken

(* Two states in which a task has the same promise; or is the same. *)
SamePromise(t, u, d) ==
  /\ None(u, d) <=> None(t, d)
  /\ Waiting(u, d) <=> Waiting(t, d)
  /\ IsKept(u, d) <=> IsKept(t, d)
  /\ IsBroken(u, d) <=> IsBroken(t, d)
Same(t, u, d) == SamePromise(t, u, d) /\ (IsCanceled(u, d) <=> IsCanceled(t, d))

(* A task that is left as it is. *)
LEMMA SameIs ==
  ASSUME NEW t, NEW u, NEW d, u[d] = t[d]
  PROVE  Same(t, u, d)
BY DEF Same, SamePromise, None, Waiting, IsKept, IsBroken, IsCanceled

(* A task that begins: a canceled one is rejected at once (BaseTask.run). *)
LEMMA BeginsIs ==
  ASSUME plan \in DOMAIN Plan, NEW t, NEW u, NEW d \in Node, StatusOf(t, d), Begins(t, u, d)
  PROVE  /\ None(t, d) /\ ~None(u, d) /\ (IsCanceled(u, d) <=> IsCanceled(t, d))
         /\ IsCanceled(t, d) => IsBroken(u, d) /\ ~Waiting(u, d)
         /\ d \in Groups => ~IsKept(u, d)
         /\ d \in Groups /\ ~IsCanceled(t, d) => Waiting(u, d)
         /\ d \in Onces => ~IsCanceled(t, d)
         /\ IsBroken(u, d) => IsCanceled(t, d)
         /\ StatusOf(u, d)
<1>1. d \in Onces => d \in Groups
  BY DEF Onces
<1>2. d \in Groups => d \notin Leaves
  BY DEF Leaves
<1>3. CASE IsCanceled(t, d)
  <2>1. u[d] = [status |-> "canceled", promise |-> "broken"] /\ None(t, d)
    BY <1>3 DEF Begins
  <2>2. d \notin Onces
    BY <1>3, <2>1 DEF StatusOf
  <2> QED  BY <1>3, <2>1, <2>2 DEF StatusOf, None, Waiting, IsKept, IsBroken, IsCanceled
<1>4. CASE ~IsCanceled(t, d) /\ d \in Leaves /\ ~Task[d].waits
  <2>1. u[d] = [status |-> "finished", promise |-> "kept"] /\ None(t, d) /\ d \notin Groups
    BY <1>2, <1>4 DEF Begins
  <2> QED  BY <1>1, <1>4, <2>1 DEF StatusOf, None, Waiting, IsKept, IsBroken, IsCanceled
<1>5. CASE ~IsCanceled(t, d) /\ d \in Onces
  <2>1. u[d] = [status |-> "idle", promise |-> "pending"] /\ None(t, d)
    BY <1>5 DEF Begins
  <2> QED
    BY <1>1, <1>2, <1>5, <2>1 DEF StatusOf, None, Waiting, IsKept, IsBroken, IsCanceled
<1>6. CASE ~IsCanceled(t, d) /\ d \notin Onces /\ ~(d \in Leaves /\ ~Task[d].waits)
  <2>1. u[d] = [status |-> "running", promise |-> "pending"] /\ None(t, d)
    BY <1>6 DEF Begins
  <2> QED  BY <1>6, <2>1 DEF StatusOf, None, Waiting, IsKept, IsBroken, IsCanceled
<1> QED  BY <1>3, <1>4, <1>5, <1>6

(* run() keeps the invariants. *)
LEMMA RunKeeps ==
  ASSUME plan \in DOMAIN Plan, NEW t, TreeInv(t), NEW n \in Node, CanRun(t, n),
         NEW u, NEW R, Ran(t, u, n, R)
  PROVE  TreeInv(u)
<1>1. State(t) /\ State(u) /\ R \subseteq Node /\ n \in R
  BY DEF TreeInv, Ran
<1>2. \A d \in Node : \/ Same(t, u, d) /\ (d \in R => d = "open" /\ d # n /\ ~None(t, d))
                      \/ d \in R /\ Begins(t, u, d)
  BY <1>1, SameIs DEF Ran
<1>3. \A d \in Node : StatusOf(t, d)
  BY DEF TreeInv
<1>4. \A d \in Node : StatusOf(u, d)
  <2> SUFFICES ASSUME NEW d \in Node PROVE StatusOf(u, d)
    OBVIOUS
  <2>1. u[d] = t[d] \/ Begins(t, u, d)
    BY DEF Ran
  <2>2. CASE u[d] = t[d]
    BY <1>3, <2>2 DEF StatusOf, None, Waiting, IsKept, IsBroken, IsCanceled
  <2>3. CASE Begins(t, u, d)
    BY <1>3, <2>3, BeginsIs
  <2> QED  BY <2>1, <2>2, <2>3
<1>5. ASSUME NEW g \in Groups  PROVE GroupInv(u, g)
  <2>1. /\ g \in Node /\ ToSet(Sub(g)) \subseteq Node /\ HeadOf(g) \in ToSet(Sub(g))
        /\ Dependencies(g) = ToSet(Sub(g)) \ {HeadOf(g)}
        /\ g \in Onces <=> Kind(g) = "once"
    BY TreeFacts, SubFacts DEF Onces
  <2>2. /\ ChildNone(t, g) /\ FirstBegun(t, g) /\ InSeries(t, g) /\ KeptSubs(t, g)
        /\ ChildPending(t, g) /\ DepPending(t, g) /\ HeadPending(t, g)
        /\ HeadAfter(t, g) /\ HeadNever(t, g) /\ HeadFirst(t, g) /\ CancelDown(t, g)
    BY DEF TreeInv, GroupInv
  <2>3. /\ RunsFirst(g) \subseteq ToSet(Sub(g))
        /\ Kind(g) \in {"serial", "each"} => RunsFirst(g) = {HeadOf(g)}
        /\ Kind(g) = "once" => RunsFirst(g) = Dependencies(g)
        /\ Kind(g) \notin {"serial", "each", "once"} => RunsFirst(g) = ToSet(Sub(g))
    BY RunsFirstIs
  (* what of g is reached *)
  <2>4. \A d \in ToSet(Sub(g)) : d \in R =>
          d = n \/ (g \in R /\ None(t, g) /\ ~IsCanceled(t, g) /\ d \in RunsFirst(g))
    <3> SUFFICES ASSUME NEW d \in ToSet(Sub(g)), d \in R, d # n
                 PROVE  g \in R /\ None(t, g) /\ ~IsCanceled(t, g) /\ d \in RunsFirst(g)
      OBVIOUS
    <3>1. PICK h \in Groups \cap R : None(t, h) /\ ~IsCanceled(t, h) /\ d \in RunsFirst(h)
      BY DEF Ran
    <3>2. h = g
      BY <2>1, <3>1, RunsFirstIs, TreeFacts
    <3> QED  BY <3>1, <3>2
  <2>5. g \in R /\ None(t, g) /\ ~IsCanceled(t, g) => RunsFirst(g) \subseteq R
    BY DEF Ran
  (* what became of a task *)
  <2>6. \A d \in Node : /\ ~None(t, d) => Same(t, u, d)
                        /\ d \notin R => Same(t, u, d)
                        /\ d \in R => ~None(u, d)
                        /\ IsCanceled(u, d) <=> IsCanceled(t, d)
                        /\ None(u, d) => None(t, d)
    BY <1>2, <1>3, BeginsIs DEF Same, SamePromise, Begins
  <2>7. ~Same(t, u, g) => /\ g \in R /\ None(t, g) /\ ~None(u, g)
                          /\ ~IsKept(u, g)
                          /\ IsCanceled(t, g) => ~Waiting(u, g)
                          /\ ~IsCanceled(t, g) => Waiting(u, g)
                          /\ Kind(g) = "once" => ~IsCanceled(t, g)
    BY <1>2, <1>3, <2>1, BeginsIs
  <2>8. \A d \in Node : IsCanceled(t, d) /\ None(t, d) => ~Waiting(u, d)
    <3> SUFFICES ASSUME NEW d \in Node, IsCanceled(t, d), None(t, d)  PROVE ~Waiting(u, d)
      OBVIOUS
    <3>1. ~Waiting(t, d)
      BY <1>1, PromiseIs
    <3> QED  BY <1>2, <1>3, <3>1, BeginsIs DEF Same, SamePromise
  <2>9. n \in ToSet(Sub(g)) =>
       \/ n = "open" /\ None(t, g)
       \/ /\ Kind(g) \in {"serial", "each"} /\ Waiting(t, g)
          /\ Kind(g) = "serial" => ~IsCanceled(t, g)
          /\ \A i, j \in DOMAIN Sub(g) : i < j /\ n = Sub(g)[j] =>
               IsKept(t, Sub(g)[i]) \/ (Kind(g) = "each" /\ IsBroken(t, Sub(g)[i]))
       \/ /\ Kind(g) = "once" /\ n = HeadOf(g) /\ ~None(t, g)
          /\ \A d \in Dependencies(g) : IsKept(t, d)
          /\ Waiting(t, g) \/ IsCanceled(t, n)
    BY DEF CanRun
  <2>10. \A d \in Node : /\ None(t, d) \/ Waiting(t, d) \/ IsKept(t, d) \/ IsBroken(t, d)
                         /\ ~(None(t, d) /\ Waiting(t, d)) /\ ~(None(t, d) /\ IsKept(t, d))
                         /\ ~(None(t, d) /\ IsBroken(t, d)) /\ ~(Waiting(t, d) /\ IsKept(t, d))
                         /\ ~(Waiting(t, d) /\ IsBroken(t, d))
                         /\ ~(IsKept(t, d) /\ IsBroken(t, d))
    BY <1>1, PromiseIs
  <2>11. ChildNone(u, g)
    BY <2>1, <2>2, <2>4, <2>6, <2>9, <2>10 DEF ChildNone, Same, SamePromise
  <2>12. FirstBegun(u, g)
    BY <2>1, <2>2, <2>3, <2>5, <2>6, <2>7 DEF FirstBegun, Same, SamePromise
  <2>13. InSeries(u, g)
    <3> SUFFICES ASSUME Kind(g) \in {"serial", "each"},
                        NEW i \in DOMAIN Sub(g), NEW j \in DOMAIN Sub(g), i < j,
                        ~None(u, Sub(g)[j])
                 PROVE  IsKept(u, Sub(g)[i]) \/ (Kind(g) = "each" /\ IsBroken(u, Sub(g)[i]))
      BY DEF InSeries
    <3>1. /\ i \in 1..Len(Sub(g)) /\ j \in 1..Len(Sub(g)) /\ j # 1
          /\ Sub(g)[i] \in ToSet(Sub(g)) /\ Sub(g)[j] \in ToSet(Sub(g))
          /\ HeadOf(g) = Sub(g)[1] /\ 1 \in DOMAIN Sub(g)
      BY SubFacts
    <3>2. Sub(g)[j] # HeadOf(g)
      BY <3>1, TreeFacts
    <3>3. IsKept(t, Sub(g)[i]) \/ (Kind(g) = "each" /\ IsBroken(t, Sub(g)[i]))
      <4>1. CASE Sub(g)[j] \in R /\ None(t, Sub(g)[j])
        <5>1. Sub(g)[j] = n
          BY <2>3, <2>4, <3>1, <3>2, <4>1
        <5>2. n # "open" \/ ~None(t, g)
          BY <3>1, <3>2, <5>1, OpenFacts
        <5> QED  BY <2>9, <3>1, <5>1, <5>2
      <4>2. CASE ~(Sub(g)[j] \in R /\ None(t, Sub(g)[j]))
        <5>1. ~None(t, Sub(g)[j])
          BY <2>1, <2>6, <3>1, <4>2 DEF Same, SamePromise
        <5> QED  BY <2>2, <5>1 DEF InSeries
      <4> QED  BY <4>1, <4>2
    <3> QED  BY <2>1, <2>6, <2>10, <3>1, <3>3 DEF Same, SamePromise
  <2>14. KeptSubs(u, g)
    BY <2>1, <2>2, <2>6, <2>7, <2>10 DEF KeptSubs, Same, SamePromise
  <2>15. ChildPending(u, g)
    <3> SUFFICES ASSUME Kind(g) # "once", NEW d \in ToSet(Sub(g)), Waiting(u, d),
                        d = "open" => ~None(u, g)
                 PROVE  Waiting(u, g)
      BY DEF ChildPending
    <3>1. CASE Same(t, u, d)
      <4>1. Waiting(t, d)
        BY <3>1 DEF Same, SamePromise
      <4>2. CASE Waiting(t, g)
        BY <2>1, <2>6, <2>10, <4>2 DEF Same, SamePromise
      <4>3. CASE ~Waiting(t, g)
        <5>1. d = "open" /\ None(t, g)
          BY <2>2, <4>1, <4>3 DEF ChildPending
        <5>2. ~IsCanceled(t, g)
          <6>1. "signaling" \in Onces /\ HeadOf("signaling") = g /\ Dependencies("signaling") = {}
            BY <5>1, OpenFacts
          <6>2. HeadFirst(t, "signaling") /\ Kind("signaling") = "once"
            BY <6>1 DEF TreeInv, GroupInv, Onces
          <6> QED  BY <5>1, <6>1, <6>2 DEF HeadFirst
        <5> QED  BY <2>7, <5>1, <5>2 DEF Same, SamePromise
      <4> QED  BY <4>2, <4>3
    <3>2. CASE ~Same(t, u, d)
      <4>1. d \in R /\ None(t, d)
        BY <2>1, <2>6, <3>2
      <4>2. CASE d = n
        <5>1. Waiting(t, g) \/ (n = "open" /\ None(t, g))
          BY <2>9, <4>2
        <5>2. CASE Waiting(t, g)
          BY <2>1, <2>6, <2>10, <5>2 DEF Same, SamePromise
        <5>3. CASE n = "open" /\ None(t, g)
          <6>1. "signaling" \in Onces /\ HeadOf("signaling") = g /\ Dependencies("signaling") = {}
            BY <4>2, <5>3, OpenFacts
          <6>2. HeadFirst(t, "signaling") /\ Kind("signaling") = "once"
            BY <6>1 DEF TreeInv, GroupInv, Onces
          <6>3. ~IsCanceled(t, g)
            BY <5>3, <6>1, <6>2 DEF HeadFirst
          <6> QED  BY <2>7, <4>2, <5>3, <6>3 DEF Same, SamePromise
        <5> QED  BY <5>1, <5>2, <5>3
      <4>3. CASE d # n
        <5>1. g \in R /\ None(t, g) /\ ~IsCanceled(t, g)
          BY <2>4, <4>1, <4>3
        <5> QED  BY <2>6, <2>7, <2>1, <5>1 DEF Same, SamePromise
      <4> QED  BY <4>2, <4>3
    <3> QED  BY <3>1, <3>2
  <2>16. DepPending(u, g)
    <3> SUFFICES ASSUME Kind(g) = "once", NEW d \in Dependencies(g) \ {"receiveAudioInput"},
                        Waiting(u, d)
                 PROVE  Waiting(u, g)
      BY DEF DepPending
    <3>1. CASE Same(t, u, d)
      <4>1. Waiting(t, g)
        BY <2>2, <3>1 DEF DepPending, Same, SamePromise
      <4> QED  BY <2>1, <2>6, <2>10, <4>1 DEF Same, SamePromise
    <3>2. CASE ~Same(t, u, d)
      <4>1. d \in R /\ d \in ToSet(Sub(g)) /\ d # HeadOf(g)
        BY <2>1, <2>6, <3>2
      <4>2. d # n
        <5>1. n = "open" /\ n \in ToSet(Sub(g)) => Kind(g) = "serial"
          BY OpenFacts
        <5> QED  BY <2>9, <4>1, <5>1
      <4>3. g \in R /\ None(t, g) /\ ~IsCanceled(t, g)
        BY <2>4, <4>1, <4>2
      <4> QED  BY <2>1, <2>6, <2>7, <4>3 DEF Same, SamePromise
    <3> QED  BY <3>1, <3>2
  <2>17. ASSUME Kind(g) = "once", HeadOf(g) \in R
         PROVE  /\ HeadOf(g) = n /\ ~None(t, g)
                /\ \A d \in Dependencies(g) : IsKept(t, d)
                /\ Waiting(t, g) \/ IsCanceled(t, n)
    <3>1. HeadOf(g) = n
      BY <2>1, <2>3, <2>4, <2>17
    <3>2. ~(n = "open" /\ n \in ToSet(Sub(g)))
      BY <2>17, OpenFacts
    <3> QED  BY <2>1, <2>9, <2>17, <3>1, <3>2
  <2>18. HeadPending(u, g)
    BY <2>1, <2>2, <2>6, <2>10, <2>17 DEF HeadPending, Same, SamePromise
  <2>19. HeadAfter(u, g)
    BY <2>1, <2>2, <2>6, <2>10, <2>17 DEF HeadAfter, Same, SamePromise
  <2>20. HeadNever(u, g)
    <3> SUFFICES ASSUME Kind(g) = "once", IsKept(u, g) \/ IsBroken(u, g), None(u, HeadOf(g))
                 PROVE  IsCanceled(u, HeadOf(g)) \/ \E d \in Dependencies(g) : IsBroken(u, d)
      BY DEF HeadNever
    <3>1. Same(t, u, g)
      <4>1. ~(Waiting(u, g) /\ IsKept(u, g)) /\ ~(Waiting(u, g) /\ IsBroken(u, g))
        BY <1>1, <2>1, PromiseIs
      <4> QED  BY <2>7, <4>1
    <3>2. IsKept(t, g) \/ IsBroken(t, g)
      BY <3>1 DEF Same, SamePromise
    <3>3. IsCanceled(t, HeadOf(g)) \/ \E d \in Dependencies(g) : IsBroken(t, d)
      BY <2>1, <2>2, <2>6, <3>2 DEF HeadNever
    <3> QED  BY <2>1, <2>6, <2>10, <3>3 DEF Same, SamePromise
  <2>21. HeadFirst(u, g)
    BY <2>1, <2>2, <2>6 DEF HeadFirst
  <2>22. CancelDown(u, g)
    <3> SUFFICES ASSUME Kind(g) \notin {"once", "each"}, IsCanceled(u, g), Waiting(u, g),
                        NEW d \in ToSet(Sub(g)), Waiting(u, d)
                 PROVE  IsCanceled(u, d)
      BY DEF CancelDown
    <3>1. Same(t, u, g)
      BY <2>1, <2>6, <2>7
    <3>2. IsCanceled(t, g) /\ Waiting(t, g)
      BY <3>1 DEF Same, SamePromise
    <3>3. CASE Same(t, u, d)
      BY <2>2, <3>2, <3>3 DEF CancelDown, Same, SamePromise
    <3>4. CASE ~Same(t, u, d)
      <4>1. d \in R
        BY <2>1, <2>6, <3>4
      <4> QED  BY <2>1, <2>4, <2>9, <2>10, <3>2, <4>1
    <3> QED  BY <3>3, <3>4
  <2> QED
    BY <2>11, <2>12, <2>13, <2>14, <2>15, <2>16, <2>18, <2>19, <2>20, <2>21, <2>22 DEF GroupInv
<1> QED  BY <1>1, <1>4, <1>5 DEF TreeInv

(* The promise of a task can be settled: it waits, and what it waits for is   *)
(* settled or, below a OnceTask, canceled.                                     *)
CanSettle(t, n, promise) ==
  /\ Waiting(t, n) /\ promise \in {"kept", "broken"}
  /\ n \in Groups =>
       /\ promise = "kept" =>
            /\ Kind(n) = "once" => IsKept(t, HeadOf(n))
            /\ Kind(n) = "each" => \A d \in ToSet(Sub(n)) : IsKept(t, d) \/ IsBroken(t, d)
            /\ Kind(n) \notin {"once", "each"} => \A d \in ToSet(Sub(n)) : IsKept(t, d)
       /\ Kind(n) # "once" => \A d \in ToSet(Sub(n)) : ~Waiting(t, d)
       /\ Kind(n) = "once" =>
            /\ \A d \in Dependencies(n) \ {"receiveAudioInput"} : ~Waiting(t, d)
            /\ Waiting(t, HeadOf(n)) => IsCanceled(t, HeadOf(n))
            /\ None(t, HeadOf(n)) =>
                 IsCanceled(t, HeadOf(n)) \/ \E d \in Dependencies(n) : IsBroken(t, d)
Settles(t, u, n, promise) ==
  /\ State(u) /\ \A d \in Node \ {n} : u[d] = t[d]
  /\ u[n] = [status |-> IF n \in Onces \/ IsCanceled(t, n) THEN t[n].status ELSE "finished",
             promise |-> promise]

(* A promise that is settled keeps the invariants. *)
LEMMA SettleKeeps ==
  ASSUME plan \in DOMAIN Plan, NEW t, TreeInv(t), NEW n \in Node, NEW promise,
         CanSettle(t, n, promise), NEW u, Settles(t, u, n, promise)
  PROVE  TreeInv(u)
<1>1. State(t) /\ State(u) /\ \A d \in Node : StatusOf(t, d)
  BY DEF TreeInv, Settles
<1>2. /\ promise = "kept" => IsKept(u, n)
      /\ promise = "broken" => IsBroken(u, n)
      /\ ~None(u, n) /\ ~Waiting(u, n) /\ (IsCanceled(u, n) <=> IsCanceled(t, n))
      /\ promise = "kept" => ~IsBroken(u, n)
      /\ promise = "broken" => ~IsKept(u, n)
  BY DEF Settles, CanSettle, None, Waiting, IsKept, IsBroken, IsCanceled
<1>3. /\ Waiting(t, n) /\ promise \in {"kept", "broken"}
      /\ ~None(t, n) /\ ~IsKept(t, n) /\ ~IsBroken(t, n)
  BY DEF CanSettle, None, Waiting, IsKept, IsBroken
<1>4. \A d \in Node \ {n} : Same(t, u, d)
  BY SameIs DEF Settles
<1>5. \A d \in Node : /\ None(t, d) \/ Waiting(t, d) \/ IsKept(t, d) \/ IsBroken(t, d)
                      /\ ~(None(t, d) /\ Waiting(t, d)) /\ ~(None(t, d) /\ IsKept(t, d))
                      /\ ~(None(t, d) /\ IsBroken(t, d)) /\ ~(Waiting(t, d) /\ IsKept(t, d))
                      /\ ~(Waiting(t, d) /\ IsBroken(t, d)) /\ ~(IsKept(t, d) /\ IsBroken(t, d))
  BY <1>1, PromiseIs
<1>6. \A d \in Node : StatusOf(u, d)
  <2> SUFFICES ASSUME NEW d \in Node PROVE StatusOf(u, d)
    OBVIOUS
  <2>1. CASE d # n
    <3>1. u[d] = t[d]
      BY <2>1 DEF Settles
    <3> QED  BY <1>1, <3>1 DEF StatusOf, None, Waiting, IsKept, IsBroken, IsCanceled
  <2>2. CASE d = n /\ n \in Onces
    <3>1. u[n] = [status |-> t[n].status, promise |-> promise]
      BY <2>2 DEF Settles
    <3>2. n \notin Leaves
      BY <2>2 DEF Onces, Leaves
    <3> QED  BY <1>1, <1>2, <1>3, <2>2, <3>1, <3>2 DEF StatusOf, IsCanceled
  <2>3. CASE d = n /\ n \notin Onces /\ IsCanceled(t, n)
    <3>1. u[n] = [status |-> "canceled", promise |-> promise]
      BY <2>3 DEF Settles, IsCanceled
    <3> QED  BY <1>1, <1>2, <1>3, <2>3, <3>1 DEF StatusOf, IsCanceled
  <2>4. CASE d = n /\ n \notin Onces /\ ~IsCanceled(t, n)
    <3>1. u[n] = [status |-> "finished", promise |-> promise]
      BY <2>4 DEF Settles, IsCanceled
    <3> QED  BY <1>1, <1>2, <1>3, <2>4, <3>1 DEF StatusOf, IsCanceled
  <2> QED  BY <2>1, <2>2, <2>3, <2>4
<1>7. ASSUME NEW g \in Groups  PROVE GroupInv(u, g)
  <2>1. /\ g \in Node /\ ToSet(Sub(g)) \subseteq Node /\ HeadOf(g) \in ToSet(Sub(g))
        /\ Dependencies(g) = ToSet(Sub(g)) \ {HeadOf(g)} /\ RunsFirst(g) \subseteq ToSet(Sub(g))
        /\ \A i \in DOMAIN Sub(g) : Sub(g)[i] \in ToSet(Sub(g))
    BY TreeFacts, SubFacts, RunsFirstIs
  <2>2. /\ ChildNone(t, g) /\ FirstBegun(t, g) /\ InSeries(t, g) /\ KeptSubs(t, g)
        /\ ChildPending(t, g) /\ DepPending(t, g) /\ HeadPending(t, g)
        /\ HeadAfter(t, g) /\ HeadNever(t, g) /\ HeadFirst(t, g) /\ CancelDown(t, g)
    BY DEF TreeInv, GroupInv
  (* only n is settled, and n waited *)
  <2>3. \A d \in Node : /\ None(u, d) <=> None(t, d)
                        /\ Waiting(u, d) <=> Waiting(t, d) /\ d # n
                        /\ IsKept(u, d) <=> IsKept(t, d) \/ (d = n /\ promise = "kept")
                        /\ IsBroken(u, d) <=> IsBroken(t, d) \/ (d = n /\ promise = "broken")
                        /\ IsCanceled(u, d) <=> IsCanceled(t, d)
    BY <1>2, <1>3, <1>4 DEF Same, SamePromise
  <2>4. g = n =>
       /\ promise = "kept" =>
            /\ Kind(g) = "once" => IsKept(t, HeadOf(g))
            /\ Kind(g) = "each" => \A d \in ToSet(Sub(g)) : IsKept(t, d) \/ IsBroken(t, d)
            /\ Kind(g) \notin {"once", "each"} => \A d \in ToSet(Sub(g)) : IsKept(t, d)
       /\ Kind(g) # "once" => \A d \in ToSet(Sub(g)) : ~Waiting(t, d)
       /\ Kind(g) = "once" =>
            /\ \A d \in Dependencies(g) \ {"receiveAudioInput"} : ~Waiting(t, d)
            /\ Waiting(t, HeadOf(g)) => IsCanceled(t, HeadOf(g))
            /\ None(t, HeadOf(g)) =>
                 IsCanceled(t, HeadOf(g)) \/ \E d \in Dependencies(g) : IsBroken(t, d)
    BY DEF CanSettle
  <2>5. ChildNone(u, g)
    BY <2>1, <2>2, <2>3 DEF ChildNone
  <2>6. FirstBegun(u, g)
    BY <1>3, <2>1, <2>2, <2>3 DEF FirstBegun
  <2>7. InSeries(u, g)
    BY <2>1, <2>2, <2>3 DEF InSeries
  <2>8. KeptSubs(u, g)
    BY <2>1, <2>2, <2>3, <2>4 DEF KeptSubs
  <2>9. ChildPending(u, g)
    BY <2>1, <2>2, <2>3, <2>4 DEF ChildPending
  <2>10. DepPending(u, g)
    BY <2>1, <2>2, <2>3, <2>4 DEF DepPending
  <2>11. HeadPending(u, g)
    BY <2>1, <2>2, <2>3, <2>4 DEF HeadPending
  <2>12. HeadAfter(u, g)
    BY <2>1, <2>2, <2>3 DEF HeadAfter
  <2>13. HeadNever(u, g)
    <3> SUFFICES ASSUME Kind(g) = "once", IsKept(u, g) \/ IsBroken(u, g), None(u, HeadOf(g))
                 PROVE  IsCanceled(u, HeadOf(g)) \/ \E d \in Dependencies(g) : IsBroken(u, d)
      BY DEF HeadNever
    <3>1. None(t, HeadOf(g)) /\ (IsKept(t, g) \/ IsBroken(t, g) \/ g = n)
      BY <2>1, <2>3
    <3>2. IsCanceled(t, HeadOf(g)) \/ \E d \in Dependencies(g) : IsBroken(t, d)
      BY <2>2, <2>4, <3>1 DEF HeadNever
    <3> QED  BY <2>1, <2>3, <3>2
  <2>14. HeadFirst(u, g)
    BY <2>1, <2>2, <2>3 DEF HeadFirst
  <2>15. CancelDown(u, g)
    BY <2>1, <2>2, <2>3 DEF CancelDown
  <2> QED
    BY <2>5, <2>6, <2>7, <2>8, <2>9, <2>10, <2>11, <2>12, <2>13, <2>14, <2>15 DEF GroupInv
<1> QED  BY <1>1, <1>6, <1>7 DEF TreeInv

(* What becomes of the promise of a task that waits. *)
Unanswered(cancel) ==
  IF cancel = "rejects" THEN "broken" ELSE IF cancel = "resolves" THEN "kept" ELSE "pending"

(* What cancel() of n does, and C what it reaches. *)
Cancels(t, u, n, C) ==
  /\ State(u) /\ C \subseteq Node
  /\ \A d \in Node \ C : u[d] = t[d]
  /\ \A d \in C : /\ t[d].status \in {"idle", "running"} /\ u[d].status = "canceled"
                  /\ d \notin Leaves \/ ~Waiting(t, d) => u[d].promise = t[d].promise
                  /\ d \in Leaves /\ Waiting(t, d) =>
                       u[d].promise = Unanswered(Task[d].cancel)
  /\ \A d \in Node : d \in C <=>
       /\ t[d].status \in {"idle", "running"}
       /\ d = n \/ \E g \in Groups \cap C : d \in ToSet(Sub(g)) /\ d \in CancelsNow(g, t)

(* cancel() of a task, with the callbacks it adds. *)
LEMMA CancelIs ==
  ASSUME plan \in DOMAIN Plan, TreeInv(tasks), NEW n \in Node, NEW remaining, Cancel(n, remaining)
  PROVE  /\ Cancels(tasks, tasks', n, Canceled(n, tasks))
         /\ ticks' = remaining \o
              Batch(UNION {OnceTicks(d, tasks) : d \in Canceled(n, tasks) \cap Onces})
<1> DEFINE C == Canceled(n, tasks)
           t == tasks
           u == tasks'
<1>1. u = [d \in Node |-> IF d \in C THEN baseCancel(d, t[d]) ELSE t[d]]
  BY DEF Cancel
<1>2. /\ C \subseteq Node
      /\ \A d \in Node : d \in C <=>
           /\ t[d].status \in {"idle", "running"}
           /\ d = n \/ \E g \in Groups : d \in ToSet(Sub(g)) /\ g \in C /\ d \in CancelsNow(g, t)
  BY CanceledIs
<1>3. State(t)
  BY DEF TreeInv
<1>4. \A d \in DOMAIN Task : Task[d].cancel \in {"rejects", "resolves", "ignored"}
  BY DEF Task, Waits, Immediate, OpenSignalingConnection, JoinAndReceiveIndex,
         ReceiveTURNCredentials, CreateSDP, SetLocalDescription, FinishGatheringICECandidates,
         SubscribeAndReceiveSubscribeAck, SetRemoteDescription, WaitForAttendeePresence,
         LeaveAndReceiveLeaveAck, CleanStoppedSession, PromoteToPrimaryMeeting,
         ReceiveAudioInput, ReceiveVideoInput, AttachMediaInput, Monitor,
         ListenForVolumeIndicators, SendAndReceiveDataMessages, ReceiveVideoStreamIndex,
         CreatePeerConnection, CleanRestartedSession
<1>5. \A d \in Leaves : d \in DOMAIN Task
  BY TreeFacts DEF Leaves
<1>6. \A d \in C : /\ t[d].status \in {"idle", "running"} /\ u[d].status = "canceled"
                   /\ d \notin Leaves \/ ~Waiting(t, d) => u[d].promise = t[d].promise
                   /\ d \in Leaves /\ Waiting(t, d) =>
                        u[d].promise = Unanswered(Task[d].cancel)
  <2> SUFFICES ASSUME NEW d \in C
               PROVE  /\ t[d].status \in {"idle", "running"} /\ u[d].status = "canceled"
                      /\ d \notin Leaves \/ ~Waiting(t, d) => u[d].promise = t[d].promise
                      /\ d \in Leaves /\ Waiting(t, d) =>
                           u[d].promise = Unanswered(Task[d].cancel)
    OBVIOUS
  <2>1. t[d].status \in {"idle", "running"} /\ u[d] = baseCancel(d, t[d])
    BY <1>1, <1>2
  <2>2. d \in Leaves => Task[d].cancel \in {"rejects", "resolves", "ignored"}
    BY <1>4, <1>5
  <2>3. CASE d \notin Leaves \/ ~Waiting(t, d)
    BY <2>1, <2>3 DEF baseCancel, Waiting
  <2>4. CASE d \in Leaves /\ Waiting(t, d)
    BY <2>1, <2>2, <2>4 DEF baseCancel, Waiting, Unanswered
  <2> QED  BY <2>1, <2>3, <2>4 DEF baseCancel
<1>7. State(u)
  <2> SUFFICES ASSUME NEW d \in C PROVE baseCancel(d, t[d]) \in Record
    BY <1>1, <1>3 DEF State
  <2>1. t[d] \in Record
    BY <1>2, <1>3 DEF State
  <2>2. t[d].promise \in {"none", "pending", "kept", "broken"}
    BY <2>1 DEF Record
  <2>3. baseCancel(d, t[d]).promise \in {"none", "pending", "kept", "broken"}
    BY <1>4, <1>5, <2>2 DEF baseCancel
  <2>4. \E p : baseCancel(d, t[d]) = [status |-> "canceled", promise |-> p]
    BY Zenon DEF baseCancel
  <2> HIDE DEF C
  <2> QED  BY <2>3, <2>4 DEF Record
<1>8. {d \in C : IsOnce(d)} = C \cap Onces
  BY <1>2 DEF IsOnce, Onces
<1>9. ticks' = remaining \o Batch(UNION {OnceTicks(d, tasks) : d \in C \cap Onces})
  BY <1>8 DEF Cancel
<1>10. \A d \in Node \ C : u[d] = t[d]
  BY <1>1
<1> HIDE DEF C
<1> QED  BY <1>2, <1>6, <1>7, <1>9, <1>10 DEF Cancels, C

(* Every OnceTask is reached from one that a group in series runs, along the  *)
(* dependencies.                                                                *)
LEMMA OnceChain ==
  ASSUME plan \in DOMAIN Plan, NEW X,
         \A g \in Groups \ Onces : \A d \in ToSet(Sub(g)) \cap Onces : d \in X,
         \A g \in Onces \cap X : Dependencies(g) \subseteq X
  PROVE  Onces \subseteq X
<1> SUFFICES ASSUME plan \in Promised  PROVE Onces \subseteq X
  BY OthersAre
<1> DEFINE below(g, d) == g \in Onces /\ d \in Onces /\ d \in Dependencies(g)
<1>1. Onces \subseteq {"monitor", "subscribeAck", "ice", "setLocalDescription", "createSDP",
                       "attachMediaInput", "createPeerConnection", "receiveAudioInput",
                       "signaling", "open"}
  BY StartIs DEF Onces
<1>2. {"monitor", "subscribeAck", "ice", "setLocalDescription", "createSDP",
       "attachMediaInput", "createPeerConnection", "receiveAudioInput",
       "signaling", "open"} \subseteq Onces
  BY StartIs DEF Onces
<1>3. \A g \in Groups : /\ HeadOf(g) = Sub(g)[1]
                        /\ Dependencies(g) = ToSet(Sub(g)) \ {HeadOf(g)}
  BY SubFacts
<1>4. \A g \in Groups : g \in Onces <=> Kind(g) = "once"
  BY DEF Onces
<1>5. /\ "monitor" \in ToSet(Sub("root")) /\ "open" \in ToSet(Sub("Signaling"))
      /\ "subscribeAck" \in ToSet(Sub("Peer"))
  <2>1. \E last : Sub("Peer") = <<"subscribeAck", last>>
    BY StartIs
  <2>2. Sub("root") = <<"monitor", "connectionTimeout">>
    BY StartIs
  <2>3. "Signaling" \in Groups /\ HeadOf("Signaling") \in ToSet(Sub("Signaling"))
    BY StartIs, SubFacts
  <2>4. Sub("Signaling")[1] = "open"
    BY StartIs
  <2> QED  BY <1>3, <2>1, <2>2, <2>3, <2>4, TupleSets
<1>6. {"monitor", "open", "subscribeAck"} \subseteq X
  <2>1. {"root", "Signaling", "Peer"} \subseteq Groups \ Onces
    BY StartIs DEF Onces
  <2> QED  BY <1>2, <1>5, <2>1
<1>7. /\ "ice" \in Dependencies("subscribeAck")
      /\ "setLocalDescription" \in Dependencies("ice")
      /\ "createSDP" \in Dependencies("setLocalDescription")
      /\ "attachMediaInput" \in Dependencies("createSDP")
  <2>1. /\ Sub("subscribeAck") = <<"SubscribeAndReceiveSubscribeAck", "ice">>
        /\ Sub("ice") = <<"FinishGatheringICECandidates", "setLocalDescription">>
        /\ Sub("setLocalDescription") = <<"SetLocalDescription", "createSDP">>
        /\ Sub("createSDP") = <<"CreateSDP", "attachMediaInput">>
        /\ {"subscribeAck", "ice", "setLocalDescription", "createSDP"} \subseteq Groups
    BY StartIs
  <2>2. /\ ToSet(Sub("subscribeAck")) = {"SubscribeAndReceiveSubscribeAck", "ice"}
        /\ ToSet(Sub("ice")) = {"FinishGatheringICECandidates", "setLocalDescription"}
        /\ ToSet(Sub("setLocalDescription")) = {"SetLocalDescription", "createSDP"}
        /\ ToSet(Sub("createSDP")) = {"CreateSDP", "attachMediaInput"}
    BY <2>1, TupleSets
  <2> QED  BY <1>3, <2>1, <2>2
<1>8. /\ {"createPeerConnection", "receiveAudioInput"} \subseteq Dependencies("attachMediaInput")
      /\ "signaling" \in Dependencies("createPeerConnection")
  <2>1. /\ Sub("attachMediaInput") =
             <<"AttachMediaInput", "createPeerConnection", "receiveAudioInput">>
        /\ Sub("createPeerConnection") = <<"CreatePeerConnection", "signaling">>
        /\ {"attachMediaInput", "createPeerConnection"} \subseteq Groups
    BY StartIs
  <2>2. /\ ToSet(Sub("attachMediaInput")) =
             {"AttachMediaInput", "createPeerConnection", "receiveAudioInput"}
        /\ ToSet(Sub("createPeerConnection")) = {"CreatePeerConnection", "signaling"}
    BY <2>1, TupleSets
  <2> QED  BY <1>3, <2>1, <2>2
<1> QED  BY <1>1, <1>2, <1>6, <1>7, <1>8

(* The subtasks cancel() of a group reaches, by the kind of the group. *)
LEMMA CancelsNowIs ==
  ASSUME plan \in DOMAIN Plan, NEW g \in Groups, NEW t
  PROVE  /\ CancelsNow(g, t) \subseteq ToSet(Sub(g))
         /\ Kind(g) \in {"serial", "each"} =>
              CancelsNow(g, t) = {d \in ToSet(Sub(g)) : t[g].status = "running" /\ Waiting(t, d)}
         /\ Kind(g) = "once" => CancelsNow(g, t) = Dependencies(g)
         /\ Kind(g) \notin {"serial", "each", "once"} => CancelsNow(g, t) = ToSet(Sub(g))
<1>1. Dependencies(g) \subseteq ToSet(Sub(g))
  BY SubFacts
<1>2. CASE Kind(g) \in {"serial", "each"}
  BY <1>2 DEF CancelsNow, Current, Waiting
<1>3. CASE Kind(g) = "once"
  BY <1>1, <1>3 DEF CancelsNow, Dependencies
<1>4. CASE Kind(g) \notin {"serial", "each", "once"}
  BY <1>4 DEF CancelsNow
<1> QED  BY <1>2, <1>3, <1>4

(* What can be canceled on its own: no OnceTask; the task of a OnceTask that  *)
(* has no dependencies when it has begun.                                      *)
CanCancel(t, n) ==
  /\ n \notin Onces
  /\ \A x \in Onces : n = HeadOf(x) /\ Dependencies(x) = {} => ~None(t, n)

(* A OnceTask is canceled when it has begun. *)
LEMMA CanceledBegun ==
  ASSUME plan \in DOMAIN Plan, NEW t, TreeInv(t), NEW n \in Node, n \notin Onces,
         NEW u, NEW C, Cancels(t, u, n, C), NEW x \in Onces, x \in C
  PROVE  ~None(t, x)
<1> DEFINE X == {y \in Onces : y \in C => ~None(t, y)}
<1>1. State(t) /\ C \subseteq Node /\ \A g \in Onces : g \in Groups /\ Kind(g) = "once"
  BY DEF TreeInv, Cancels, Onces
<1>2. \A y \in Onces \cap C : \E g \in Groups \cap C : /\ y \in ToSet(Sub(g))
                                                       /\ y \in CancelsNow(g, t)
  BY <1>1 DEF Cancels
<1>3. ASSUME NEW g \in Groups \ Onces, NEW d \in ToSet(Sub(g)) \cap Onces  PROVE d \in X
  <2> SUFFICES ASSUME d \in C PROVE ~None(t, d)
    OBVIOUS
  <2>1. g \in C /\ d \in CancelsNow(g, t)
    <3>1. PICK h \in Groups \cap C : d \in ToSet(Sub(h)) /\ d \in CancelsNow(h, t)
      BY <1>2
    <3>2. h = g
      BY <1>1, <3>1, TreeFacts
    <3> QED  BY <3>1, <3>2
  <2>2. Kind(g) \in {"serial", "each"}
    <3>1. Kind(g) \in {"serial", "each", "timeout", "parallel"}
      BY TreeFacts DEF Onces
    <3>2. Kind(g) \in {"timeout", "parallel"} => d \notin Onces
      BY SubFacts
    <3> QED  BY <3>1, <3>2
  <2>3. Waiting(t, d)
    BY <2>1, <2>2, CancelsNowIs
  <2> QED  BY <1>1, <2>3, PromiseIs
<1>4. ASSUME NEW g \in Onces \cap X, NEW d \in Dependencies(g)  PROVE d \in X
  <2>1. d \in Onces /\ d \in ToSet(Sub(g)) /\ d \in Node
    BY <1>1, SubFacts
  <2> SUFFICES ASSUME d \in C PROVE ~None(t, d)
    BY <2>1
  <2>2. g \in C
    <3>1. PICK h \in Groups \cap C : d \in ToSet(Sub(h))
      BY <1>2, <2>1
    <3>2. h = g
      BY <1>1, <2>1, <3>1, TreeFacts
    <3> QED  BY <3>1, <3>2
  <2>3. FirstBegun(t, g) /\ Kind(g) = "once"
    BY <1>1 DEF TreeInv, GroupInv
  <2> QED  BY <2>2, <2>3 DEF FirstBegun
<1> HIDE DEF X
<1>5. \A g \in Groups \ Onces : \A d \in ToSet(Sub(g)) \cap Onces : d \in X
  BY <1>3
<1>6. \A g \in Onces \cap X : Dependencies(g) \subseteq X
  BY <1>4
<1>7. Onces \subseteq X
  BY <1>5, <1>6, OnceChain
<1> QED  BY <1>7 DEF X

(* cancel() keeps the invariants. *)
LEMMA CancelKeeps ==
  ASSUME plan \in DOMAIN Plan, NEW t, TreeInv(t), NEW n \in Node, CanCancel(t, n),
         NEW u, NEW C, Cancels(t, u, n, C)
  PROVE  TreeInv(u)
<1>1. State(t) /\ State(u) /\ C \subseteq Node /\ \A d \in Node : StatusOf(t, d)
  BY DEF TreeInv, Cancels
<1>2. \A d \in Node : /\ None(t, d) \/ Waiting(t, d) \/ IsKept(t, d) \/ IsBroken(t, d)
                      /\ ~(None(t, d) /\ Waiting(t, d)) /\ ~(None(t, d) /\ IsKept(t, d))
                      /\ ~(None(t, d) /\ IsBroken(t, d)) /\ ~(Waiting(t, d) /\ IsKept(t, d))
                      /\ ~(Waiting(t, d) /\ IsBroken(t, d)) /\ ~(IsKept(t, d) /\ IsBroken(t, d))
  BY <1>1, PromiseIs
<1>3. ASSUME NEW d \in Node
      PROVE  /\ d \notin Leaves \/ ~Waiting(t, d) => SamePromise(t, u, d)
             /\ d \in Leaves /\ Waiting(t, d) => ~None(u, d)
             /\ d \in Leaves /\ d \in C /\ Task[d].cancel # "ignored" => ~Waiting(u, d)
             /\ IsCanceled(u, d) <=> IsCanceled(t, d) \/ d \in C
             /\ d \in C => ~IsCanceled(t, d)
             /\ d \notin C => u[d] = t[d]
  <2>1. CASE d \notin C
    <3>1. u[d] = t[d]
      BY <2>1 DEF Cancels
    <3> QED  BY <1>2, <2>1, <3>1, SameIs DEF Same, SamePromise
  <2>2. CASE d \in C
    <3>1. /\ t[d].status \in {"idle", "running"} /\ u[d].status = "canceled"
          /\ d \notin Leaves \/ ~Waiting(t, d) => u[d].promise = t[d].promise
          /\ d \in Leaves /\ Waiting(t, d) => u[d].promise = Unanswered(Task[d].cancel)
      BY <2>2 DEF Cancels
    <3>2. IsCanceled(u, d) /\ ~IsCanceled(t, d)
      BY <3>1 DEF IsCanceled
    <3>3. d \notin Leaves \/ ~Waiting(t, d) => SamePromise(t, u, d)
      BY <3>1 DEF SamePromise, None, Waiting, IsKept, IsBroken
    <3>4. d \in Leaves /\ Waiting(t, d) =>
            ~None(u, d) /\ (Task[d].cancel # "ignored" => ~Waiting(u, d))
      <4>1. d \in Leaves => d \in DOMAIN Task
        BY TreeFacts DEF Leaves
      <4>2. \A e \in DOMAIN Task : Task[e].cancel \in {"rejects", "resolves", "ignored"}
        BY DEF Task, Waits, Immediate, OpenSignalingConnection, JoinAndReceiveIndex,
               ReceiveTURNCredentials, CreateSDP, SetLocalDescription,
               FinishGatheringICECandidates, SubscribeAndReceiveSubscribeAck,
               SetRemoteDescription, WaitForAttendeePresence, LeaveAndReceiveLeaveAck,
               CleanStoppedSession, PromoteToPrimaryMeeting, ReceiveAudioInput,
               ReceiveVideoInput, AttachMediaInput, Monitor, ListenForVolumeIndicators,
               SendAndReceiveDataMessages, ReceiveVideoStreamIndex, CreatePeerConnection,
               CleanRestartedSession
      <4> QED  BY <3>1, <4>1, <4>2 DEF Unanswered, None, Waiting
    <3> QED  BY <1>2, <2>2, <3>2, <3>3, <3>4 DEF SamePromise
  <2> QED  BY <2>1, <2>2
<1>4. \A d \in Node : StatusOf(u, d)
  <2> SUFFICES ASSUME NEW d \in Node PROVE StatusOf(u, d)
    OBVIOUS
  <2>1. CASE d \notin C
    <3>1. u[d] = t[d]
      BY <1>3, <2>1
    <3> QED  BY <1>1, <3>1 DEF StatusOf, None, Waiting, IsKept, IsBroken, IsCanceled
  <2>2. CASE d \in C
    <3>1. u[d].status = "canceled" /\ IsCanceled(u, d)
      BY <2>2 DEF Cancels, IsCanceled
    <3>2. d \in Onces => ~None(u, d)
      <4>1. d \in Onces => d \notin Leaves
        BY DEF Onces, Leaves
      <4> QED  BY <1>3, <2>2, <4>1, CanceledBegun DEF CanCancel, SamePromise
    <3>3. d \in Leaves => /\ Task[d].cancel # "ignored" => ~Waiting(u, d)
                          /\ ~Task[d].waits => ~Waiting(u, d)
      <4>1. d \in Leaves /\ ~Task[d].waits => ~Waiting(t, d)
        BY <1>1 DEF StatusOf
      <4> QED  BY <1>3, <2>2, <4>1 DEF SamePromise
    <3> QED  BY <3>1, <3>2, <3>3 DEF StatusOf
  <2> QED  BY <2>1, <2>2
<1>5. ASSUME NEW g \in Groups  PROVE GroupInv(u, g)
  <2>1. /\ g \in Node /\ g \notin Leaves
        /\ ToSet(Sub(g)) \subseteq Node /\ HeadOf(g) \in ToSet(Sub(g))
        /\ Dependencies(g) = ToSet(Sub(g)) \ {HeadOf(g)} /\ RunsFirst(g) \subseteq ToSet(Sub(g))
        /\ \A i \in DOMAIN Sub(g) : Sub(g)[i] \in ToSet(Sub(g))
        /\ g \in Onces <=> Kind(g) = "once"
    BY TreeFacts, SubFacts, RunsFirstIs DEF Leaves, Onces
  <2>2. /\ ChildNone(t, g) /\ FirstBegun(t, g) /\ InSeries(t, g) /\ KeptSubs(t, g)
        /\ ChildPending(t, g) /\ DepPending(t, g) /\ HeadPending(t, g)
        /\ HeadAfter(t, g) /\ HeadNever(t, g) /\ HeadFirst(t, g) /\ CancelDown(t, g)
    BY DEF TreeInv, GroupInv
  (* a group's promise stays what it was, and so does a settled one *)
  <2>3. /\ SamePromise(t, u, g)
        /\ \A d \in Node : /\ None(u, d) <=> None(t, d)
                           /\ Waiting(u, d) => Waiting(t, d)
                           /\ IsKept(t, d) => IsKept(u, d)
                           /\ IsBroken(t, d) => IsBroken(u, d)
                           /\ IsCanceled(t, d) => IsCanceled(u, d)
    BY <1>2, <1>3, <2>1 DEF SamePromise
  <2>4. ChildNone(u, g)
    BY <2>1, <2>2, <2>3 DEF ChildNone
  <2>5. FirstBegun(u, g)
    BY <2>1, <2>2, <2>3 DEF FirstBegun, SamePromise
  <2>6. InSeries(u, g)
    BY <2>1, <2>2, <2>3 DEF InSeries
  <2>7. KeptSubs(u, g)
    BY <2>1, <2>2, <2>3 DEF KeptSubs, SamePromise
  <2>8. ChildPending(u, g)
    BY <2>1, <2>2, <2>3 DEF ChildPending, SamePromise
  <2>9. DepPending(u, g)
    BY <2>1, <2>2, <2>3 DEF DepPending, SamePromise
  <2>10. HeadPending(u, g)
    BY <2>1, <2>2, <2>3 DEF HeadPending, SamePromise
  <2>11. HeadAfter(u, g)
    BY <2>1, <2>2, <2>3 DEF HeadAfter
  <2>12. HeadNever(u, g)
    BY <2>1, <2>2, <2>3 DEF HeadNever, SamePromise
  <2>13. HeadFirst(u, g)
    <3> SUFFICES ASSUME Kind(g) = "once", Dependencies(g) = {}, IsCanceled(u, HeadOf(g))
                 PROVE  ~None(u, HeadOf(g))
      BY DEF HeadFirst
    <3>1. CASE IsCanceled(t, HeadOf(g))
      BY <2>1, <2>2, <2>3, <3>1 DEF HeadFirst
    <3>2. CASE HeadOf(g) \in C
      <4>1. HeadOf(g) = n
        <5> SUFFICES ASSUME HeadOf(g) # n PROVE FALSE
          OBVIOUS
        <5>1. PICK h \in Groups : HeadOf(g) \in ToSet(Sub(h)) /\ HeadOf(g) \in CancelsNow(h, t)
          BY <2>1, <3>2 DEF Cancels
        <5>2. h = g
          BY <2>1, <5>1, TreeFacts
        <5> QED  BY <5>1, <5>2, CancelsNowIs
      <4> QED  BY <2>1, <2>3, <4>1 DEF CanCancel
    <3> QED  BY <1>3, <2>1, <3>1, <3>2
  <2>14. CancelDown(u, g)
    <3> SUFFICES ASSUME Kind(g) \notin {"once", "each"}, IsCanceled(u, g), Waiting(u, g),
                        NEW d \in ToSet(Sub(g)), Waiting(u, d)
                 PROVE  IsCanceled(u, d)
      BY DEF CancelDown
    <3>1. Waiting(t, g) /\ Waiting(t, d) /\ d \in Node
      BY <2>1, <2>3
    <3>2. CASE IsCanceled(t, g)
      BY <2>2, <2>3, <3>1, <3>2 DEF CancelDown
    <3>3. CASE g \in C
      <4>1. t[g].status = "running"
        <5>1. t[g].status \in {"idle", "running"}
          BY <3>3 DEF Cancels
        <5>2. StatusOf(t, g) /\ g \notin Onces
          BY <1>1, <2>1
        <5> QED  BY <1>2, <2>1, <3>1, <5>1, <5>2 DEF StatusOf
      <4>2. d \in CancelsNow(g, t)
        BY <3>1, <4>1, CancelsNowIs
      <4>3. t[d].status \in {"idle", "running"} => d \in C
        BY <3>1, <3>3, <4>2 DEF Cancels
      <4>4. IsCanceled(t, d) \/ t[d].status \in {"idle", "running"}
        <5>1. StatusOf(t, d) /\ t[d].status \in {"idle", "running", "canceled", "finished"}
          BY <1>1, <3>1 DEF State, Record
        <5> QED  BY <1>2, <3>1, <5>1 DEF StatusOf, IsCanceled
      <4> QED  BY <1>3, <3>1, <4>3, <4>4
    <3> QED  BY <1>3, <2>1, <3>2, <3>3
  <2> QED
    BY <2>4, <2>5, <2>6, <2>7, <2>8, <2>9, <2>10, <2>11, <2>12, <2>13, <2>14 DEF GroupInv
<1> QED  BY <1>1, <1>4, <1>5 DEF TreeInv

(* The subtasks a group in series has run are the first ones. *)
LEMMA PositionIs ==
  ASSUME plan \in DOMAIN Plan, TreeInv(tasks), NEW g \in Groups, Kind(g) \in {"serial", "each"},
         ~None(tasks, HeadOf(g))
  PROVE  /\ Position(g) \in 1..Len(Sub(g))
         /\ \A i \in DOMAIN Sub(g) : ~None(tasks, Sub(g)[i]) <=> i <= Position(g)
<1> DEFINE s == Sub(g)
           B == {i \in DOMAIN s : tasks[s[i]].promise # "none"}
           S == {k \in Nat : k >= 1 /\ k + 1 \notin B}
<1>1. /\ DOMAIN s = 1..Len(s) /\ Len(s) \in Nat \ {0} /\ HeadOf(g) = s[1]
      /\ \A i \in 1..Len(s) : s[i] \in Node
  BY SubFacts
<1>2. 1 \in B
  BY <1>1 DEF None
<1>3. \A i, j \in DOMAIN s : i < j /\ j \in B => i \in B
  <2> SUFFICES ASSUME NEW i \in DOMAIN s, NEW j \in DOMAIN s, i < j, j \in B  PROVE i \in B
    OBVIOUS
  <2>1. IsKept(tasks, s[i]) \/ IsBroken(tasks, s[i])
    <3>1. InSeries(tasks, g) /\ ~None(tasks, s[j])
      BY DEF TreeInv, GroupInv, None
    <3> QED  BY <3>1 DEF InSeries
  <2> QED  BY <2>1 DEF IsKept, IsBroken
<1>4. PICK k \in S : \A m \in S : k <= m
  <2> DEFINE less == OpToRel(<, Nat)
  <2>1. Len(s) \in S /\ S \subseteq Nat
    BY <1>1
  <2>2. IsWellFoundedOn(less, Nat)
    BY NatLessThanWellFounded
  <2>3. \A i, j \in Nat : i < j => <<i, j>> \in less
    BY DEF OpToRel
  <2> HIDE DEF less, S
  <2>4. PICK k \in S : \A m \in S : ~(<<m, k>> \in less)
    BY <2>1, <2>2, WFMin
  <2>5. ASSUME NEW m \in S  PROVE k <= m
    <3>1. k \in Nat /\ m \in Nat /\ ~(m < k)
      BY <2>1, <2>3, <2>4
    <3> QED  BY <3>1
  <2> QED  BY <2>5
<1>5. k \in Nat /\ k >= 1 /\ k + 1 \notin B
  BY <1>4
<1>6. \A i \in 1..k : i \in B
  <2> SUFFICES ASSUME NEW i \in 1..k, i # 1  PROVE i \in B
    BY <1>2
  <2>1. i - 1 \in Nat /\ i - 1 >= 1 /\ i - 1 < k /\ (i - 1) + 1 = i
    BY <1>5
  <2> QED  BY <1>4, <1>5, <2>1
<1>7. \A i \in DOMAIN s : i \in B <=> i <= k
  <2> SUFFICES ASSUME NEW i \in DOMAIN s, i \in B  PROVE i <= k
    BY <1>1, <1>5, <1>6
  <2> SUFFICES ASSUME i > k  PROVE FALSE
    BY <1>1, <1>5
  <2>1. k + 1 \in DOMAIN s /\ (k + 1 = i \/ k + 1 < i)
    BY <1>1, <1>5
  <2> QED  BY <1>3, <1>5, <2>1
<1>8. B = 1..k
  BY <1>1, <1>5, <1>6, <1>7
<1>9. Position(g) = k
  <2>1. Cardinality(1..k) = k
    BY <1>5, FS_Interval
  <2>2. Position(g) = Cardinality(B)
    BY DEF Position
  <2> QED  BY <1>8, <2>1, <2>2
<1>10. k \in 1..Len(s)
  <2>1. k \in B
    BY <1>5, <1>6
  <2> QED  BY <1>1, <1>5, <2>1
<1>11. \A i \in DOMAIN s : ~None(tasks, s[i]) <=> i \in B
  BY DEF None
<1> QED  BY <1>7, <1>9, <1>10, <1>11

(* The names of the module and those of a state. *)
LEMMA NamesAre ==
  ASSUME NEW n
  PROVE  /\ Settled(n) <=> IsKept(tasks, n) \/ IsBroken(tasks, n)
         /\ Kept(n) <=> IsKept(tasks, n)
         /\ Broken(n) <=> IsBroken(tasks, n)
         /\ Pending(n) <=> Waiting(tasks, n)
BY DEF Settled, Kept, Broken, Pending, IsKept, IsBroken, Waiting

(* What a group in series waits for. *)
LEMMA AwaitedIs ==
  ASSUME plan \in DOMAIN Plan, TreeInv(tasks), NEW g \in Groups, Kind(g) \in {"serial", "each"},
         Waiting(tasks, g)
  PROVE  /\ Position(g) \in 1..Len(Sub(g)) /\ Awaited(g) = Sub(g)[Position(g)]
         /\ Awaited(g) \in ToSet(Sub(g)) /\ ~None(tasks, Awaited(g))
         /\ \A i \in DOMAIN Sub(g) :
              /\ i < Position(g) => IsKept(tasks, Sub(g)[i])
                                      \/ (Kind(g) = "each" /\ IsBroken(tasks, Sub(g)[i]))
              /\ i > Position(g) => None(tasks, Sub(g)[i])
<1>1. ~None(tasks, HeadOf(g))
  <2>1. FirstBegun(tasks, g)
    BY DEF TreeInv, GroupInv
  <2>2. RunsFirst(g) = {HeadOf(g)}
    BY RunsFirstIs
  <2> QED  BY <2>1, <2>2 DEF FirstBegun
<1>2. /\ Position(g) \in 1..Len(Sub(g))
      /\ \A i \in DOMAIN Sub(g) : ~None(tasks, Sub(g)[i]) <=> i <= Position(g)
  BY <1>1, PositionIs
<1>3. DOMAIN Sub(g) = 1..Len(Sub(g)) /\ \A i \in 1..Len(Sub(g)) : Sub(g)[i] \in ToSet(Sub(g))
  BY SubFacts
<1>4. Awaited(g) = Sub(g)[Position(g)]
  BY DEF Awaited
<1>5. ~None(tasks, Awaited(g)) /\ Awaited(g) \in ToSet(Sub(g))
  BY <1>2, <1>3, <1>4
<1>6. ASSUME NEW i \in DOMAIN Sub(g)
      PROVE  /\ i < Position(g) => IsKept(tasks, Sub(g)[i])
                                     \/ (Kind(g) = "each" /\ IsBroken(tasks, Sub(g)[i]))
             /\ i > Position(g) => None(tasks, Sub(g)[i])
  <2>1. InSeries(tasks, g) /\ Position(g) \in DOMAIN Sub(g)
    BY <1>2, <1>3 DEF TreeInv, GroupInv
  <2>2. i < Position(g) => IsKept(tasks, Sub(g)[i])
                             \/ (Kind(g) = "each" /\ IsBroken(tasks, Sub(g)[i]))
    BY <1>4, <1>5, <2>1 DEF InSeries
  <2>3. i > Position(g) => None(tasks, Sub(g)[i])
    BY <1>2, <1>3
  <2> QED  BY <2>2, <2>3
<1> QED  BY <1>2, <1>4, <1>5, <1>6

(* What a group goes on to can be run. *)
LEMMA GoesCanRun ==
  ASSUME plan \in DOMAIN Plan, TreeInv(tasks), NEW g \in Groups, Goes(g)
  PROVE  /\ Sub(g)[Position(g) + 1] \in ToSet(Sub(g))
         /\ CanRun(tasks, Sub(g)[Position(g) + 1])
<1> DEFINE n == Sub(g)[Position(g) + 1]
<1>1. Kind(g) \in {"serial", "each"} /\ Waiting(tasks, g) /\ Position(g) < Len(Sub(g))
  BY NamesAre DEF Goes
<1>2. /\ Position(g) \in 1..Len(Sub(g)) /\ Awaited(g) = Sub(g)[Position(g)]
      /\ \A i \in DOMAIN Sub(g) :
           /\ i < Position(g) => IsKept(tasks, Sub(g)[i])
                                   \/ (Kind(g) = "each" /\ IsBroken(tasks, Sub(g)[i]))
           /\ i > Position(g) => None(tasks, Sub(g)[i])
  BY <1>1, AwaitedIs
<1>3. DOMAIN Sub(g) = 1..Len(Sub(g)) /\ \A i \in 1..Len(Sub(g)) : Sub(g)[i] \in ToSet(Sub(g))
  BY SubFacts
<1>4. /\ Position(g) + 1 \in DOMAIN Sub(g) /\ n \in ToSet(Sub(g)) /\ None(tasks, n)
  BY <1>1, <1>2, <1>3
<1>5. /\ Kind(g) = "each" => IsKept(tasks, Awaited(g)) \/ IsBroken(tasks, Awaited(g))
      /\ Kind(g) = "serial" => IsKept(tasks, Awaited(g)) /\ ~IsCanceled(tasks, g)
  BY <1>1, NamesAre DEF Goes, IsCanceled
<1>6. \A i, j \in DOMAIN Sub(g) : i < j /\ n = Sub(g)[j] =>
        IsKept(tasks, Sub(g)[i]) \/ (Kind(g) = "each" /\ IsBroken(tasks, Sub(g)[i]))
  <2> SUFFICES ASSUME NEW i \in DOMAIN Sub(g), NEW j \in DOMAIN Sub(g), i < j, n = Sub(g)[j]
               PROVE  IsKept(tasks, Sub(g)[i]) \/ (Kind(g) = "each" /\ IsBroken(tasks, Sub(g)[i]))
    OBVIOUS
  <2>1. j = Position(g) + 1
    BY <1>4, TreeFacts
  <2>2. i < Position(g) \/ i = Position(g)
    BY <1>2, <1>3, <2>1
  <2> QED  BY <1>1, <1>2, <1>5, <2>2
<1>7. \A h \in Groups : n \in ToSet(Sub(h)) => h = g
  BY <1>4, SubFacts, TreeFacts
<1> QED  BY <1>1, <1>4, <1>5, <1>6, <1>7 DEF CanRun

(* So can the task of a OnceTask. *)
LEMMA GoesOnceCanRun ==
  ASSUME plan \in DOMAIN Plan, TreeInv(tasks), NEW g \in Groups, GoesOnce(g)
  PROVE  HeadOf(g) \in ToSet(Sub(g)) /\ CanRun(tasks, HeadOf(g))
<1>1. /\ Kind(g) = "once" /\ ~None(tasks, g) /\ None(tasks, HeadOf(g))
      /\ \A d \in Dependencies(g) : IsKept(tasks, d)
  BY NamesAre DEF GoesOnce, None, HeadOf
<1>2. /\ HeadOf(g) \in ToSet(Sub(g)) /\ g \in Node
      /\ Dependencies(g) \subseteq Node /\ State(tasks)
      /\ \A h \in Groups : HeadOf(g) \in ToSet(Sub(h)) => h = g
  BY SubFacts, TreeFacts DEF TreeInv
<1>3. Waiting(tasks, g) \/ IsCanceled(tasks, HeadOf(g))
  <2>1. HeadNever(tasks, g)
    BY DEF TreeInv, GroupInv
  <2>2. \A d \in Dependencies(g) : ~IsBroken(tasks, d)
    BY <1>1, <1>2, PromiseIs
  <2>3. Waiting(tasks, g) \/ IsKept(tasks, g) \/ IsBroken(tasks, g)
    BY <1>1, <1>2, PromiseIs
  <2> QED  BY <1>1, <2>1, <2>2, <2>3 DEF HeadNever
<1> QED  BY <1>1, <1>2, <1>3 DEF CanRun

(* The dependencies: one for each OnceTask, but for a second one that is left *)
(* to itself.                                                                  *)
LEMMA DependenciesAre ==
  ASSUME plan \in DOMAIN Plan, NEW g \in Onces, NEW d \in Dependencies(g), NEW e \in Dependencies(g),
         d # e
  PROVE  /\ plan \in Promised /\ g = "attachMediaInput"
         /\ {d, e} = {"createPeerConnection", "receiveAudioInput"}
<1>1. plan \in Promised
  BY OthersAre
<1>2. Onces \subseteq {"monitor", "subscribeAck", "ice", "setLocalDescription", "createSDP",
                       "attachMediaInput", "createPeerConnection", "receiveAudioInput",
                       "signaling", "open"}
  BY <1>1, StartIs DEF Onces
<1>3. g \in Groups /\ Dependencies(g) = ToSet(Sub(g)) \ {HeadOf(g)} /\ HeadOf(g) = Sub(g)[1]
  BY SubFacts DEF Onces
<1>4. /\ Sub("monitor") = <<"Monitor">>
      /\ Sub("subscribeAck") = <<"SubscribeAndReceiveSubscribeAck", "ice">>
      /\ Sub("ice") = <<"FinishGatheringICECandidates", "setLocalDescription">>
      /\ Sub("setLocalDescription") = <<"SetLocalDescription", "createSDP">>
      /\ Sub("createSDP") = <<"CreateSDP", "attachMediaInput">>
  BY <1>1, StartIs
<1>5. /\ Sub("attachMediaInput") =
           <<"AttachMediaInput", "createPeerConnection", "receiveAudioInput">>
      /\ Sub("createPeerConnection") = <<"CreatePeerConnection", "signaling">>
      /\ Sub("receiveAudioInput") = <<"ReceiveAudioInput">>
      /\ Sub("signaling") = <<"Signaling">> /\ Sub("open") = <<"openTimeout">>
  BY <1>1, StartIs
<1>6. /\ ToSet(Sub("monitor")) = {"Monitor"}
      /\ ToSet(Sub("subscribeAck")) = {"SubscribeAndReceiveSubscribeAck", "ice"}
      /\ ToSet(Sub("ice")) = {"FinishGatheringICECandidates", "setLocalDescription"}
      /\ ToSet(Sub("setLocalDescription")) = {"SetLocalDescription", "createSDP"}
      /\ ToSet(Sub("createSDP")) = {"CreateSDP", "attachMediaInput"}
  BY <1>4, TupleSets
<1>7. /\ ToSet(Sub("attachMediaInput")) =
           {"AttachMediaInput", "createPeerConnection", "receiveAudioInput"}
      /\ ToSet(Sub("createPeerConnection")) = {"CreatePeerConnection", "signaling"}
      /\ ToSet(Sub("receiveAudioInput")) = {"ReceiveAudioInput"}
      /\ ToSet(Sub("signaling")) = {"Signaling"} /\ ToSet(Sub("open")) = {"openTimeout"}
  BY <1>5, TupleSets
<1>8. CASE g \in {"monitor", "subscribeAck", "ice", "setLocalDescription", "createSDP"}
  BY <1>3, <1>4, <1>6, <1>8
<1>9. CASE g \in {"createPeerConnection", "receiveAudioInput", "signaling", "open"}
  BY <1>3, <1>5, <1>7, <1>9
<1>10. CASE g = "attachMediaInput"
  BY <1>1, <1>3, <1>5, <1>7, <1>10
<1> QED  BY <1>2, <1>8, <1>9, <1>10

(* A group whose promise follows those of its subtasks can settle. *)
LEMMA EndsWellCanSettle ==
  ASSUME plan \in DOMAIN Plan, TreeInv(tasks), NEW g \in Groups, EndsWell(g)
  PROVE  CanSettle(tasks, g, "kept")
<1>1. Waiting(tasks, g) /\ Kind(g) \in {"serial", "each", "timeout", "parallel", "once"}
  BY NamesAre, TreeFacts DEF EndsWell
<1>2. ToSet(Sub(g)) \subseteq Node /\ HeadOf(g) \in ToSet(Sub(g)) /\ State(tasks)
  BY SubFacts DEF TreeInv
<1>3. \A d \in ToSet(Sub(g)) : IsKept(tasks, d) \/ IsBroken(tasks, d) => ~Waiting(tasks, d)
  BY <1>2, PromiseIs
<1>4. CASE Kind(g) \in {"serial", "each"}
  <2>1. /\ Position(g) = Len(Sub(g))
        /\ Kind(g) = "serial" => IsKept(tasks, Awaited(g))
        /\ Kind(g) = "each" => IsKept(tasks, Awaited(g)) \/ IsBroken(tasks, Awaited(g))
    BY <1>4, NamesAre DEF EndsWell
  <2>2. \A d \in ToSet(Sub(g)) : IsKept(tasks, d) \/ (Kind(g) = "each" /\ IsBroken(tasks, d))
    <3> SUFFICES ASSUME NEW d \in ToSet(Sub(g))
                 PROVE  IsKept(tasks, d) \/ (Kind(g) = "each" /\ IsBroken(tasks, d))
      OBVIOUS
    <3>1. PICK i \in 1..Len(Sub(g)) : d = Sub(g)[i]
      BY SubFacts
    <3>2. Len(Sub(g)) \in Nat /\ DOMAIN Sub(g) = 1..Len(Sub(g))
      BY SubFacts
    <3>3. i < Position(g) \/ i = Position(g)
      BY <2>1, <3>2
    <3> QED  BY <1>1, <1>4, <2>1, <3>1, <3>2, <3>3, AwaitedIs
  <2> QED  BY <1>1, <1>3, <1>4, <2>2 DEF CanSettle
<1>5. CASE Kind(g) = "once"
  <2>1. IsKept(tasks, HeadOf(g))
    BY <1>5, NamesAre DEF EndsWell, HeadOf
  <2>2. HeadAfter(tasks, g) /\ ~None(tasks, HeadOf(g)) /\ ~Waiting(tasks, HeadOf(g))
    BY <1>2, <2>1, PromiseIs DEF TreeInv, GroupInv
  <2>3. \A d \in Dependencies(g) : ~Waiting(tasks, d)
    <3>1. Dependencies(g) \subseteq ToSet(Sub(g))
      BY SubFacts
    <3> QED  BY <1>3, <1>5, <2>2, <3>1 DEF HeadAfter
  <2> QED  BY <1>1, <1>5, <2>1, <2>2, <2>3 DEF CanSettle
<1>6. CASE Kind(g) \in {"timeout", "parallel"}
  <2>1. \A d \in ToSet(Sub(g)) : IsKept(tasks, d)
    BY <1>6, NamesAre DEF EndsWell
  <2> QED  BY <1>1, <1>3, <1>6, <2>1 DEF CanSettle
<1> QED  BY <1>1, <1>4, <1>5, <1>6

(* So can one that fails, unless it is the wait for the microphone that failed. *)
LEMMA EndsBadlyCanSettle ==
  ASSUME plan \in DOMAIN Plan, TreeInv(tasks), NEW g \in Groups, EndsBadly(g),
         plan \in Promised /\ IsBroken(tasks, "receiveAudioInput") =>
           ~Waiting(tasks, "createPeerConnection")
  PROVE  CanSettle(tasks, g, "broken")
<1>1. Waiting(tasks, g) /\ Kind(g) \in {"serial", "each", "timeout", "parallel", "once"}
  BY NamesAre, TreeFacts DEF EndsBadly
<1>2. /\ ToSet(Sub(g)) \subseteq Node /\ HeadOf(g) \in ToSet(Sub(g)) /\ State(tasks)
      /\ Dependencies(g) = ToSet(Sub(g)) \ {HeadOf(g)}
  BY SubFacts DEF TreeInv
<1>3. \A d \in ToSet(Sub(g)) :
        /\ IsKept(tasks, d) \/ IsBroken(tasks, d) \/ None(tasks, d) => ~Waiting(tasks, d)
        /\ IsBroken(tasks, d) => ~None(tasks, d) /\ ~IsKept(tasks, d)
  BY <1>2, PromiseIs
<1>4. CASE Kind(g) = "serial"
  <2>1. IsKept(tasks, Awaited(g)) \/ IsBroken(tasks, Awaited(g))
    BY <1>4, NamesAre DEF EndsBadly
  <2>2. \A d \in ToSet(Sub(g)) : ~Waiting(tasks, d)
    <3> SUFFICES ASSUME NEW d \in ToSet(Sub(g))  PROVE ~Waiting(tasks, d)
      OBVIOUS
    <3>1. PICK i \in 1..Len(Sub(g)) : d = Sub(g)[i]
      BY SubFacts
    <3>2. /\ Len(Sub(g)) \in Nat /\ DOMAIN Sub(g) = 1..Len(Sub(g))
          /\ Position(g) \in 1..Len(Sub(g))
      BY <1>1, <1>4, SubFacts, AwaitedIs
    <3>3. i < Position(g) \/ i = Position(g) \/ i > Position(g)
      BY <3>2
    <3> QED  BY <1>1, <1>3, <1>4, <2>1, <3>1, <3>2, <3>3, AwaitedIs
  <2> QED  BY <1>1, <1>4, <2>2 DEF CanSettle
<1>5. CASE Kind(g) = "each"
  BY <1>5 DEF EndsBadly
<1>6. CASE Kind(g) = "once"
  <2>1. PICK d \in ToSet(Sub(g)) : IsBroken(tasks, d)
    BY <1>6, NamesAre DEF EndsBadly
  <2>2. HeadAfter(tasks, g)
    BY DEF TreeInv, GroupInv
  <2>3. CASE d = HeadOf(g)
    <3>1. \A e \in Dependencies(g) : ~Waiting(tasks, e)
      BY <1>2, <1>3, <1>6, <2>1, <2>2, <2>3 DEF HeadAfter
    <3> QED  BY <1>1, <1>2, <1>3, <1>6, <2>1, <2>3, <3>1 DEF CanSettle
  <2>4. CASE d # HeadOf(g)
    <3>1. d \in Dependencies(g)
      BY <1>2, <2>4
    <3>2. None(tasks, HeadOf(g))
      BY <1>3, <1>6, <2>1, <2>2, <3>1 DEF HeadAfter
    <3>3. \A e \in Dependencies(g) \ {"receiveAudioInput"} : ~Waiting(tasks, e)
      <4> SUFFICES ASSUME NEW e \in Dependencies(g), e # "receiveAudioInput", e # d
                   PROVE  ~Waiting(tasks, e)
        BY <1>2, <1>3, <2>1
      <4>1. plan \in Promised /\ {d, e} = {"createPeerConnection", "receiveAudioInput"}
        BY <1>6, <3>1, DependenciesAre DEF Onces
      <4>2. d = "receiveAudioInput" /\ e = "createPeerConnection"
        BY <4>1
      <4> QED  BY <2>1, <4>1, <4>2
    <3> QED  BY <1>1, <1>2, <1>3, <1>6, <2>1, <3>1, <3>2, <3>3 DEF CanSettle
  <2> QED  BY <2>3, <2>4
<1>7. CASE Kind(g) \in {"timeout", "parallel"}
  <2>1. \A d \in ToSet(Sub(g)) : IsKept(tasks, d) \/ IsBroken(tasks, d)
    BY <1>7, NamesAre DEF EndsBadly
  <2> QED  BY <1>1, <1>3, <1>7, <2>1 DEF CanSettle
<1> QED  BY <1>1, <1>4, <1>5, <1>6, <1>7

(* A task that ends settles its promise. *)
LEMMA EndIs ==
  ASSUME plan \in DOMAIN Plan, TreeInv(tasks), NEW n \in Node,
         NEW promise \in {"kept", "broken"}, End(n, promise)
  PROVE  Settles(tasks, tasks', n, promise)
<1>1. /\ State(tasks) /\ tasks[n] \in Record
      /\ IsOnce(n) <=> n \in Onces
  BY DEF TreeInv, State, IsOnce, Onces
<1>2. tasks' = [tasks EXCEPT ![n] =
        [status |-> IF n \in Onces \/ IsCanceled(tasks, n) THEN tasks[n].status ELSE "finished",
         promise |-> promise]]
  BY <1>1 DEF End, IsCanceled
<1>3. [status |-> IF n \in Onces \/ IsCanceled(tasks, n) THEN tasks[n].status ELSE "finished",
       promise |-> promise] \in Record
  BY <1>1 DEF Record
<1> QED  BY <1>1, <1>2, <1>3 DEF Settles, State

-----------------------------------------------------------------------------
(* The callbacks to come, q, and the timers that run, r. *)

Comes(q, call, x) == \E i \in DOMAIN q : Tick(call, x) \in q[i]
ComesBy(q, x, i) == \E j \in 1..i : Tick("reject", x) \in q[j]

(* d is rejected before x. *)
Precedes(d, x) ==
  \/ x \in Onces /\ d \in Dependencies(x) \ {"receiveAudioInput"}
  \/ plan \in Promised /\ d = "createPeerConnection" /\ x = "receiveAudioInput"

Callbacks == [call : {"cancel", "reject"}, on : Onces]
TickInv(t, q) ==
  /\ q \in Seq(SUBSET Callbacks)
  /\ \A i \in DOMAIN q : q[i] # {} /\ \A k \in q[i] : IsCanceled(t, k.on)
  /\ \A i, j \in DOMAIN q : \A k \in q[i], l \in q[j] : k.on = l.on => i = j
  /\ \A x \in Onces : IsCanceled(t, x) /\ t[HeadOf(x)].status \in {"idle", "running"} =>
       Comes(q, "cancel", x)
  /\ \A x \in Onces : IsCanceled(t, x) /\ Waiting(t, x) => Comes(q, "reject", x)
  /\ \A x, d \in Onces : Precedes(d, x) =>
       \A i \in DOMAIN q : Tick("reject", x) \in q[i] /\ Waiting(t, d) => ComesBy(q, d, i)
TimerInv(t, r) ==
  /\ r \in Seq(Groups)
  /\ \A i, j \in DOMAIN r : r[i] = r[j] => i = j
  /\ \A i \in DOMAIN r : Kind(r[i]) = "timeout" /\ Waiting(t, r[i])

(* The callbacks p after those in gone, of the first batch, have run and those *)
(* in new were added.                                                          *)
Ticked(q, p, gone, new) ==
  \E k, m \in {0, 1} :
    /\ Len(p) = Len(q) - k + m
    /\ \A i \in 1..(Len(q) - k) : p[i] = q[i + k] \ gone /\ p[i] # {}
    /\ k = 1 => Len(q) # 0 /\ q[1] \subseteq gone
    /\ m = 1 => p[Len(q) - k + 1] = new /\ new # {}
    /\ m = 0 => new = {}

(* A step from t to u in which C is canceled and the callbacks q become p. *)
Follows(t, u, q, p, gone, new, C) ==
  /\ new \in SUBSET Callbacks /\ p \in Seq(SUBSET Callbacks) /\ Ticked(q, p, gone, new)
  (* what is canceled, and what is not any more to be *)
  /\ \A x \in Onces : IsCanceled(u, x) <=> IsCanceled(t, x) \/ x \in C
  /\ \A x \in Onces \cap C : ~IsCanceled(t, x)
  /\ \A x \in Onces : Tick("cancel", x) \in gone => u[HeadOf(x)].status \notin {"idle", "running"}
  /\ \A x \in Onces : IsCanceled(t, x) /\ u[HeadOf(x)].status \in {"idle", "running"} =>
       t[HeadOf(x)].status \in {"idle", "running"}
  /\ \A x \in Onces : Tick("reject", x) \in gone => ~Waiting(u, x)
  /\ \A x \in Onces : IsCanceled(t, x) /\ Waiting(u, x) => Waiting(t, x)
  (* what is added *)
  /\ \A k \in new : k.on \in C
  /\ \A x \in Onces \cap C : Tick("cancel", x) \in new
  /\ \A x \in Onces \cap C : Waiting(u, x) => Tick("reject", x) \in new
  /\ \A x, d \in Onces : Precedes(d, x) =>
       /\ x \in C /\ Waiting(u, d) => d \in C \/ (IsCanceled(t, d) /\ Waiting(t, d))
       /\ IsCanceled(t, x) /\ Waiting(u, d) => Waiting(t, d)

(* A step that accounts for its callbacks keeps those to come as they should be. *)
LEMMA TicksKeep ==
  ASSUME NEW t, NEW u, NEW q, NEW p, NEW gone, NEW new, NEW C,
         TickInv(t, q), Follows(t, u, q, p, gone, new, C)
  PROVE  TickInv(u, p)
<1>0. /\ new \in SUBSET Callbacks /\ p \in Seq(SUBSET Callbacks) /\ Ticked(q, p, gone, new)
      (* what is canceled, and what is not any more to be *)
      /\ \A x \in Onces : IsCanceled(u, x) <=> IsCanceled(t, x) \/ x \in C
      /\ \A x \in Onces \cap C : ~IsCanceled(t, x)
      /\ \A x \in Onces : Tick("cancel", x) \in gone => u[HeadOf(x)].status \notin {"idle", "running"}
      /\ \A x \in Onces : IsCanceled(t, x) /\ u[HeadOf(x)].status \in {"idle", "running"} =>
           t[HeadOf(x)].status \in {"idle", "running"}
      /\ \A x \in Onces : Tick("reject", x) \in gone => ~Waiting(u, x)
      /\ \A x \in Onces : IsCanceled(t, x) /\ Waiting(u, x) => Waiting(t, x)
      (* what is added *)
      /\ \A k \in new : k.on \in C
      /\ \A x \in Onces \cap C : Tick("cancel", x) \in new
      /\ \A x \in Onces \cap C : Waiting(u, x) => Tick("reject", x) \in new
      /\ \A x, d \in Onces : Precedes(d, x) =>
           /\ x \in C /\ Waiting(u, d) => d \in C \/ (IsCanceled(t, d) /\ Waiting(t, d))
           /\ IsCanceled(t, x) /\ Waiting(u, d) => Waiting(t, d)
  BY DEF Follows
<1> USE <1>0
<1>1. PICK k \in {0, 1}, m \in {0, 1} :
        /\ Len(p) = Len(q) - k + m
        /\ \A i \in 1..(Len(q) - k) : p[i] = q[i + k] \ gone /\ p[i] # {}
        /\ k = 1 => Len(q) # 0 /\ q[1] \subseteq gone
        /\ m = 1 => p[Len(q) - k + 1] = new /\ new # {}
        /\ m = 0 => new = {}
  BY DEF Ticked
<1> DEFINE n == Len(q) - k
<1>2. /\ Len(q) \in Nat /\ DOMAIN q = 1..Len(q) /\ Len(p) \in Nat /\ DOMAIN p = 1..Len(p)
      /\ n \in Nat /\ Len(p) = n + m /\ Len(q) = n + k
  BY <1>1 DEF TickInv
<1>3. \A i \in 1..n : i \in DOMAIN p /\ i + k \in DOMAIN q /\ p[i] = q[i + k] \ gone /\ p[i] # {}
  BY <1>1, <1>2
<1>4. \A i \in DOMAIN p : \/ i \in 1..n
                          \/ m = 1 /\ i = n + 1 /\ p[i] = new /\ new # {}
  BY <1>1, <1>2
<1>5. \A i \in DOMAIN q : i - k \in 1..n \/ (k = 1 /\ i = 1 /\ q[i] \subseteq gone)
  BY <1>1, <1>2
<1> HIDE DEF n
<1>6. \A i \in DOMAIN q : q[i] # {} /\ \A c \in q[i] : IsCanceled(t, c.on)
  BY DEF TickInv
<1>7. \A i \in DOMAIN p : \A c \in p[i] : c \in Callbacks /\ c.on \in Onces
  BY DEF Callbacks
<1>8. ASSUME NEW i \in DOMAIN q, NEW c \in q[i], c \notin gone
      PROVE  i - k \in 1..n /\ c \in p[i - k] /\ (i - k) + k = i
  <2>1. i - k \in 1..n
    BY <1>5, <1>8
  <2>2. (i - k) + k = i
    BY <1>1, <1>2
  <2>3. p[i - k] = q[i] \ gone
    BY <1>3, <2>1, <2>2
  <2> QED  BY <1>8, <2>1, <2>2, <2>3
<1>9. \A i \in DOMAIN p : p[i] # {} /\ \A c \in p[i] : IsCanceled(u, c.on)
  <2> SUFFICES ASSUME NEW i \in DOMAIN p
               PROVE  p[i] # {} /\ \A c \in p[i] : IsCanceled(u, c.on)
    OBVIOUS
  <2>1. CASE i \in 1..n
    BY <1>3, <1>6, <1>7, <2>1
  <2>2. CASE p[i] = new /\ new # {}
    BY <1>7, <2>2
  <2> QED  BY <1>4, <2>1, <2>2
<1>10. \A i, j \in DOMAIN p : \A c \in p[i], e \in p[j] : c.on = e.on => i = j
  <2> SUFFICES ASSUME NEW i \in DOMAIN p, NEW j \in DOMAIN p, NEW c \in p[i], NEW e \in p[j],
                      c.on = e.on
               PROVE  i = j
    OBVIOUS
  <2>1. \A h \in DOMAIN p : \A b \in p[h] : h \in 1..n => IsCanceled(t, b.on) /\ b.on \notin C
    BY <1>3, <1>6, <1>7
  <2>2. CASE i \in 1..n /\ j \in 1..n
    <3>1. \A h, l \in DOMAIN q : \A a \in q[h], b \in q[l] : a.on = b.on => h = l
      BY DEF TickInv
    <3>2. i + k = j + k
      BY <1>3, <2>2, <3>1
    <3> QED  BY <1>1, <2>2, <3>2
  <2>3. CASE ~(i \in 1..n /\ j \in 1..n)
    BY <1>4, <2>1, <2>3
  <2> QED  BY <2>2, <2>3
<1>11. \A c \in new : \E i \in DOMAIN p : c \in p[i]
  <2>1. m = 1 => n + 1 \in DOMAIN p /\ p[n + 1] = new
    BY <1>1, <1>2 DEF n
  <2> QED  BY <1>1, <2>1
<1>12. ASSUME NEW x \in Onces, IsCanceled(u, x), u[HeadOf(x)].status \in {"idle", "running"}
       PROVE  Comes(p, "cancel", x)
  <2>1. CASE x \in C
    BY <1>11, <2>1 DEF Comes
  <2>2. CASE IsCanceled(t, x)
    <3>1. Comes(q, "cancel", x) /\ Tick("cancel", x) \notin gone
      BY <1>12, <2>2 DEF TickInv
    <3>2. PICK i \in DOMAIN q : Tick("cancel", x) \in q[i]
      BY <3>1 DEF Comes
    <3> QED  BY <1>3, <1>8, <3>1, <3>2 DEF Comes
  <2> QED  BY <1>12, <2>1, <2>2
<1>13. ASSUME NEW x \in Onces, IsCanceled(u, x), Waiting(u, x)
       PROVE  Comes(p, "reject", x)
  <2>1. CASE x \in C
    BY <1>11, <1>13, <2>1 DEF Comes
  <2>2. CASE IsCanceled(t, x)
    <3>1. Comes(q, "reject", x) /\ Tick("reject", x) \notin gone
      BY <1>13, <2>2 DEF TickInv
    <3>2. PICK i \in DOMAIN q : Tick("reject", x) \in q[i]
      BY <3>1 DEF Comes
    <3> QED  BY <1>3, <1>8, <3>1, <3>2 DEF Comes
  <2> QED  BY <1>13, <2>1, <2>2
<1>14. ASSUME NEW x \in Onces, NEW d \in Onces, Precedes(d, x),
              NEW i \in DOMAIN p, Tick("reject", x) \in p[i], Waiting(u, d)
       PROVE  ComesBy(p, d, i)
  <2> DEFINE c == Tick("reject", d)
  <2>1. Tick("reject", x).on = x /\ c \notin gone
    BY <1>14 DEF Tick
  (* a rejection that came before still does *)
  <2>2. ASSUME NEW h \in 1..Len(q), c \in q[h], h - k <= i
        PROVE  ComesBy(p, d, i)
    <3>1. h - k \in 1..n /\ c \in p[h - k]
      BY <1>2, <1>8, <2>1, <2>2
    <3>2. h - k \in 1..i
      BY <1>2, <2>2, <3>1
    <3> QED  BY <3>1, <3>2 DEF ComesBy
  <2>3. CASE i \in 1..n
    <3>1. i + k \in DOMAIN q /\ Tick("reject", x) \in q[i + k]
      BY <1>3, <1>14, <2>3
    <3>2. IsCanceled(t, x)
      BY <1>6, <2>1, <3>1
    <3>3. Waiting(t, d)
      BY <1>14, <3>2
    <3>4. ComesBy(q, d, i + k)
      BY <1>14, <3>1, <3>3 DEF TickInv
    <3>5. PICK h \in 1..(i + k) : c \in q[h]
      BY <3>4 DEF ComesBy
    <3>6. h \in 1..Len(q) /\ h - k <= i
      BY <1>1, <1>2, <2>3, <3>1, <3>5
    <3> QED  BY <2>2, <3>5, <3>6
  <2>4. CASE m = 1 /\ i = n + 1 /\ p[i] = new
    <3>1. x \in C
      BY <1>14, <2>1, <2>4
    <3>2. CASE d \in C
      <4>1. c \in p[i] /\ i \in 1..i
        BY <1>2, <1>14, <2>4, <3>2
      <4> QED  BY <4>1 DEF ComesBy
    <3>3. CASE IsCanceled(t, d) /\ Waiting(t, d)
      <4>1. Comes(q, "reject", d)
        BY <3>3 DEF TickInv
      <4>2. PICK h \in DOMAIN q : c \in q[h]
        BY <4>1 DEF Comes
      <4>3. h \in 1..Len(q) /\ h - k <= i
        BY <1>1, <1>2, <2>4, <4>2
      <4> QED  BY <2>2, <4>2, <4>3
    <3> QED  BY <1>14, <3>1, <3>2, <3>3
  <2> QED  BY <1>4, <2>3, <2>4
<1> QED  BY <1>9, <1>10, <1>12, <1>13, <1>14 DEF TickInv

(* The callbacks of one cancel() come behind those before. *)
LEMMA BatchIs ==
  ASSUME NEW q \in Seq(SUBSET Callbacks), NEW new \in SUBSET Callbacks
  PROVE  /\ q \o Batch(new) \in Seq(SUBSET Callbacks)
         /\ new = {} => q \o Batch(new) = q
         /\ new # {} => /\ Len(q \o Batch(new)) = Len(q) + 1
                        /\ \A i \in 1..Len(q) : (q \o Batch(new))[i] = q[i]
                        /\ (q \o Batch(new))[Len(q) + 1] = new
<1>1. CASE new = {}
  BY <1>1 DEF Batch
<1>2. CASE new # {}
  <2>1. Batch(new) = <<new>>
    BY <1>2 DEF Batch
  <2> QED  BY <1>2, <2>1
<1> QED  BY <1>1, <1>2

(* One cancel() adds its callbacks behind those to come. *)
LEMMA TicksAdded ==
  ASSUME NEW q \in Seq(SUBSET Callbacks), NEW new \in SUBSET Callbacks,
         \A i \in DOMAIN q : q[i] # {}
  PROVE  Ticked(q, q \o Batch(new), {}, new)
<1> DEFINE p == q \o Batch(new)
<1>1. Len(q) \in Nat /\ DOMAIN q = 1..Len(q)
  OBVIOUS
<1>2. CASE new = {}
  <2>1. p = q
    BY <1>2, BatchIs
  <2>2. /\ Len(p) = Len(q) - 0 + 0
        /\ \A i \in 1..(Len(q) - 0) : p[i] = q[i + 0] \ {} /\ p[i] # {}
    BY <1>1, <2>1
  <2> HIDE DEF p
  <2> QED  BY <1>2, <2>2 DEF Ticked, p
<1>3. CASE new # {}
  <2>1. /\ Len(p) = Len(q) + 1 /\ \A i \in 1..Len(q) : p[i] = q[i]
        /\ p[Len(q) + 1] = new
    BY <1>3, BatchIs
  <2>2. /\ Len(p) = Len(q) - 0 + 1
        /\ \A i \in 1..(Len(q) - 0) : p[i] = q[i + 0] \ {} /\ p[i] # {}
        /\ p[Len(q) - 0 + 1] = new
    BY <1>1, <2>1
  <2> HIDE DEF p
  <2> QED  BY <1>3, <2>2 DEF Ticked, p
<1> QED  BY <1>2, <1>3

(* So it does while one of the first batch runs. *)
LEMMA TicksRun ==
  ASSUME NEW t, NEW q, TickInv(t, q), q # <<>>, NEW tick \in Head(q), NEW new \in SUBSET Callbacks
  PROVE  LET left == Batch(Head(q) \ {tick}) \o Tail(q)
         IN  /\ left \in Seq(SUBSET Callbacks)
             /\ Ticked(q, left, {tick}, {})
             /\ left \o Batch(new) \in Seq(SUBSET Callbacks)
             /\ Ticked(q, left \o Batch(new), {tick}, new)
<1> DEFINE others == Head(q) \ {tick}
           left == Batch(others) \o Tail(q)
           p == left \o Batch(new)
<1>1. /\ q \in Seq(SUBSET Callbacks) /\ Len(q) \in Nat \ {0} /\ DOMAIN q = 1..Len(q)
      /\ Head(q) = q[1] /\ Tail(q) \in Seq(SUBSET Callbacks) /\ Len(Tail(q)) = Len(q) - 1
      /\ \A i \in 1..(Len(q) - 1) : Tail(q)[i] = q[i + 1]
  BY DEF TickInv
<1>2. /\ \A i \in DOMAIN q : q[i] # {}
      /\ \A i, j \in DOMAIN q : \A c \in q[i], e \in q[j] : c.on = e.on => i = j
  BY DEF TickInv
<1>3. \A i \in 2..Len(q) : q[i] \ {tick} = q[i]
  <2>1. \A i \in 2..Len(q) : tick \notin q[i]
    BY <1>1, <1>2
  <2> QED  BY <2>1
<1>4. others \in SUBSET Callbacks
  BY <1>1
<1> HIDE DEF others
<1>5. \E k \in {0, 1} :
        /\ left \in Seq(SUBSET Callbacks) /\ Len(left) = Len(q) - k
        /\ \A i \in 1..(Len(q) - k) : left[i] = q[i + k] \ {tick} /\ left[i] # {}
        /\ k = 1 => q[1] \subseteq {tick}
  <2>1. CASE others = {}
    <3>1. left = Tail(q) /\ q[1] \subseteq {tick}
      BY <1>1, <2>1 DEF Batch, others
    <3>2. \A i \in 1..(Len(q) - 1) : left[i] = q[i + 1] \ {tick} /\ left[i] # {}
      <4>1. \A i \in 1..(Len(q) - 1) : i + 1 \in 2..Len(q) /\ i + 1 \in DOMAIN q
        BY <1>1
      <4> QED  BY <1>1, <1>2, <1>3, <3>1, <4>1
    <3>3. Len(left) = Len(q) - 1 /\ left \in Seq(SUBSET Callbacks)
      BY <1>1, <3>1
    <3> HIDE DEF left
    <3> QED  BY <3>1, <3>2, <3>3
  <2>2. CASE others # {}
    <3>1. Batch(others) = <<others>>
      BY <2>2 DEF Batch
    <3>2. /\ left = <<others>> \o Tail(q) /\ <<others>> \in Seq(SUBSET Callbacks)
          /\ Len(<<others>>) = 1 /\ <<others>>[1] = others
      BY <1>4, <3>1
    <3> HIDE DEF left
    <3>3. left \in Seq(SUBSET Callbacks) /\ Len(left) = Len(q)
      BY <1>1, <3>2
    <3>4. left[1] = others /\ \A i \in 2..Len(q) : left[i] = Tail(q)[i - 1]
      BY <1>1, <3>2
    <3>5. \A i \in 1..(Len(q) - 0) : left[i] = q[i + 0] \ {tick} /\ left[i] # {}
      <4> SUFFICES ASSUME NEW i \in 1..Len(q)  PROVE left[i] = q[i] \ {tick} /\ left[i] # {}
        BY <1>1
      <4>1. CASE i = 1
        BY <1>1, <2>2, <3>4, <4>1 DEF others
      <4>2. CASE i # 1
        <5>1. i \in 2..Len(q) /\ i - 1 \in 1..(Len(q) - 1) /\ (i - 1) + 1 = i
          BY <1>1, <4>2
        <5>2. left[i] = q[i]
          BY <1>1, <3>4, <5>1
        <5> QED  BY <1>1, <1>2, <1>3, <5>1, <5>2
      <4> QED  BY <4>1, <4>2
    <3>6. Len(left) = Len(q) - 0
      BY <1>1, <3>3
    <3>7. 0 = 1 => q[1] \subseteq {tick}
      OBVIOUS
    <3> QED  BY <3>3, <3>5, <3>6, <3>7
  <2> QED  BY <2>1, <2>2
<1>6. PICK k \in {0, 1} :
        /\ left \in Seq(SUBSET Callbacks) /\ Len(left) = Len(q) - k
        /\ \A i \in 1..(Len(q) - k) : left[i] = q[i + k] \ {tick} /\ left[i] # {}
        /\ k = 1 => q[1] \subseteq {tick}
  BY <1>5
<1> HIDE DEF left
<1>7. Ticked(q, left, {tick}, {})
  <2>1. Len(left) = Len(q) - k + 0
    BY <1>1, <1>6
  <2>2. /\ k = 1 => Len(q) # 0 /\ q[1] \subseteq {tick}
        /\ 0 = 1 => left[Len(q) - k + 1] = {} /\ {} # {}
    BY <1>1, <1>6
  <2> QED  BY <1>6, <2>1, <2>2 DEF Ticked
<1>8. p \in Seq(SUBSET Callbacks) /\ Ticked(q, p, {tick}, new)
  <2>1. CASE new = {}
    BY <1>6, <1>7, <2>1, BatchIs
  <2>2. CASE new # {}
    <3>1. /\ p \in Seq(SUBSET Callbacks) /\ Len(p) = Len(left) + 1
          /\ \A i \in 1..Len(left) : p[i] = left[i]
          /\ p[Len(left) + 1] = new
      BY <1>6, <2>2, BatchIs
    <3> HIDE DEF p
    <3>2. Len(p) = Len(q) - k + 1 /\ p[Len(q) - k + 1] = new
      BY <1>1, <1>6, <3>1
    <3>3. \A i \in 1..(Len(q) - k) : p[i] = q[i + k] \ {tick} /\ p[i] # {}
      BY <1>1, <1>6, <3>1
    <3> QED  BY <1>1, <1>6, <2>2, <3>1, <3>2, <3>3 DEF Ticked
  <2> QED  BY <2>1, <2>2
<1> QED  BY <1>6, <1>7, <1>8 DEF left, others

(* A finite set in some order has no member twice. *)
LEMMA SetToSeqIs ==
  ASSUME NEW S, IsFiniteSet(S)
  PROVE  /\ SetToSeq(S) \in Seq(S)
         /\ \A i, j \in DOMAIN SetToSeq(S) : SetToSeq(S)[i] = SetToSeq(S)[j] => i = j
<1> DEFINE n == Cardinality(S)
           q == SetToSeq(S)
<1>1. n \in Nat /\ \E h : h \in Bijection(1..n, S)
  BY FS_CardinalityType DEF ExistsBijection
<1>2. q \in [1..n -> S] /\ IsInjective(q)
  <2>1. \E h : h \in [1..n -> S] /\ IsInjective(h)
    BY <1>1 DEF Bijection, Injection
  <2> QED  BY <2>1 DEF SetToSeq
<1> QED  BY <1>1, <1>2 DEF IsInjective

(* Timers are started behind those that run. *)
LEMMA TimersStarted ==
  ASSUME plan \in DOMAIN Plan, NEW t, NEW u, NEW r, TimerInv(t, r), NEW S \in SUBSET Groups,
         \A s \in S : Kind(s) = "timeout" /\ Waiting(u, s) /\ ~Waiting(t, s),
         \A g \in Groups : Waiting(t, g) => Waiting(u, g)
  PROVE  TimerInv(u, r \o SetToSeq(S))
<1> DEFINE q == SetToSeq(S)
           p == r \o q
<1>1. IsFiniteSet(S)
  BY TreeFacts, FS_Subset
<1>2. /\ q \in Seq(S) /\ Len(q) \in Nat /\ DOMAIN q = 1..Len(q)
      /\ \A i, j \in DOMAIN q : q[i] = q[j] => i = j
      /\ \A i \in 1..Len(q) : q[i] \in S
  BY <1>1, SetToSeqIs
<1> HIDE DEF q
<1>3. /\ r \in Seq(Groups) /\ Len(r) \in Nat /\ DOMAIN r = 1..Len(r)
      /\ \A i \in 1..Len(r) : r[i] \in Groups
      /\ \A i, j \in DOMAIN r : r[i] = r[j] => i = j
      /\ \A i \in DOMAIN r : Kind(r[i]) = "timeout" /\ Waiting(t, r[i])
  BY DEF TimerInv
<1>4. q \in Seq(Groups)
  BY <1>2
<1>5. /\ p \in Seq(Groups) /\ Len(p) = Len(r) + Len(q) /\ DOMAIN p = 1..Len(p)
      /\ \A i \in 1..Len(r) : p[i] = r[i]
      /\ \A i \in (Len(r) + 1)..Len(p) : p[i] = q[i - Len(r)]
  BY <1>3, <1>4
<1> HIDE DEF p
<1>6. ASSUME NEW i \in DOMAIN p
      PROVE  \/ i \in 1..Len(r) /\ p[i] = r[i] /\ Waiting(t, p[i])
             \/ i - Len(r) \in 1..Len(q) /\ p[i] = q[i - Len(r)] /\ p[i] \in S
  <2>1. CASE i <= Len(r)
    BY <1>3, <1>5, <2>1
  <2>2. CASE i > Len(r)
    <3>1. i - Len(r) \in 1..Len(q) /\ i \in (Len(r) + 1)..Len(p)
      BY <1>2, <1>3, <1>5, <2>2
    <3> QED  BY <1>2, <1>5, <3>1
  <2> QED  BY <1>2, <1>3, <1>5, <2>1, <2>2
<1>7. \A i, j \in DOMAIN p : p[i] = p[j] => i = j
  <2> SUFFICES ASSUME NEW i \in DOMAIN p, NEW j \in DOMAIN p, p[i] = p[j]  PROVE i = j
    OBVIOUS
  <2>1. CASE i \in 1..Len(r) /\ j \in 1..Len(r)
    BY <1>3, <1>5, <2>1
  <2>2. CASE i - Len(r) \in 1..Len(q) /\ j - Len(r) \in 1..Len(q)
    <3>1. /\ i \in Int /\ j \in Int
          /\ p[i] = q[i - Len(r)] /\ p[j] = q[j - Len(r)]
      BY <1>2, <1>3, <1>5, <1>6, <2>2
    <3>2. i - Len(r) = j - Len(r)
      BY <1>2, <2>2, <3>1
    <3> QED  BY <1>3, <3>1, <3>2
  <2> QED  BY <1>2, <1>3, <1>5, <1>6, <2>1, <2>2
<1>8. \A i \in DOMAIN p : Kind(p[i]) = "timeout" /\ Waiting(u, p[i])
  <2> SUFFICES ASSUME NEW i \in DOMAIN p  PROVE Kind(p[i]) = "timeout" /\ Waiting(u, p[i])
    OBVIOUS
  <2>1. CASE i \in 1..Len(r) /\ p[i] = r[i] /\ Waiting(t, p[i])
    BY <1>3, <2>1
  <2>2. CASE p[i] \in S
    BY <2>2
  <2> QED  BY <1>6, <2>1, <2>2
<1> QED  BY <1>5, <1>7, <1>8 DEF TimerInv, p, q

(* clearTimeout leaves the others. *)
LEMMA WithoutIs ==
  ASSUME NEW t, TimerInv(t, timers), NEW n
  PROVE  /\ Without(n) \in Seq(Groups)
         /\ \A i, j \in DOMAIN Without(n) : Without(n)[i] = Without(n)[j] => i = j
         /\ \A i \in DOMAIN Without(n) :
              Without(n)[i] # n /\ \E j \in DOMAIN timers : Without(n)[i] = timers[j]
<1>1. /\ timers \in Seq(Groups) /\ Len(timers) \in Nat /\ DOMAIN timers = 1..Len(timers)
      /\ \A i, j \in DOMAIN timers : timers[i] = timers[j] => i = j
  BY DEF TimerInv
<1>2. CASE ~\E i \in DOMAIN timers : timers[i] = n
  <2>1. Without(n) = timers
    BY <1>2 DEF Without
  <2> QED  BY <1>1, <1>2, <2>1
<1>3. CASE \E i \in DOMAIN timers : timers[i] = n
  <2>1. PICK w \in DOMAIN timers : timers[w] = n /\ Without(n) = RemoveAt(timers, w)
    BY <1>3 DEF Without
  <2> DEFINE m == Without(n)
             p == SubSeq(timers, 1, w - 1)
             q == SubSeq(timers, w + 1, Len(timers))
  <2>2. p \in Seq(Groups) /\ Len(p) = w - 1 /\ \A i \in 1..(w - 1) : p[i] = timers[i]
    BY <1>1
  <2>3. /\ q \in Seq(Groups) /\ Len(q) = Len(timers) - w
        /\ \A i \in 1..(Len(timers) - w) : q[i] = timers[w + i]
    BY <1>1
  <2>4. m = p \o q
    BY <2>1 DEF RemoveAt
  <2> HIDE DEF m, p, q
  <2>5. m \in Seq(Groups) /\ Len(m) = Len(timers) - 1 /\ DOMAIN m = 1..Len(m)
    <3>1. m \in Seq(Groups) /\ Len(m) = Len(p) + Len(q)
      BY <2>2, <2>3, <2>4, ConcatProperties
    <3>2. w \in Nat /\ Len(timers) \in Nat
      BY <1>1, <2>1
    <3>3. Len(m) = Len(timers) - 1
      BY <2>2, <2>3, <3>1, <3>2
    <3>4. DOMAIN m = 1..Len(m)
      BY <3>1, LenProperties
    <3> QED  BY <3>1, <3>3, <3>4
  <2>6. ASSUME NEW i \in DOMAIN m
        PROVE  /\ i <= w - 1 => i \in DOMAIN timers /\ m[i] = timers[i]
               /\ ~(i <= w - 1) => i + 1 \in DOMAIN timers /\ m[i] = timers[i + 1]
    <3>0. w \in Nat /\ i \in Nat /\ i >= 1 /\ i <= Len(timers) - 1 /\ w <= Len(timers)
      BY <1>1, <2>1, <2>5
    <3>1. CASE i <= w - 1
      <4>1. i \in 1..Len(p) /\ i \in 1..(w - 1) /\ i \in DOMAIN timers
        BY <1>1, <2>2, <3>0, <3>1
      <4>2. m[i] = p[i]
        <5>1. i \in 1..Len(p) + Len(q)
          BY <1>1, <2>2, <2>3, <3>0, <4>1
        <5>2. i <= Len(p)
          BY <2>2, <3>0, <3>1
        <5> QED  BY <2>2, <2>3, <2>4, <5>1, <5>2, ConcatProperties
      <4> QED  BY <2>2, <3>1, <4>1, <4>2
    <3>2. CASE ~(i <= w - 1)
      <4>1. m[i] = q[i - (w - 1)]
        <5>1. i \in 1..Len(p) + Len(q)
          BY <1>1, <2>2, <2>3, <3>0
        <5>2. ~(i <= Len(p)) /\ Len(p) = w - 1
          BY <2>2, <3>0, <3>2
        <5> QED  BY <2>2, <2>3, <2>4, <5>1, <5>2, ConcatProperties
      <4>2. i - (w - 1) \in 1..(Len(timers) - w) /\ w + (i - (w - 1)) = i + 1
        BY <1>1, <2>5, <3>2
      <4>3. i + 1 \in DOMAIN timers
        BY <1>1, <2>5
      <4> QED  BY <2>3, <3>2, <4>1, <4>2, <4>3
    <3> QED  BY <3>1, <3>2
  <2>7. \A i, j \in DOMAIN m : m[i] = m[j] => i = j
    <3> SUFFICES ASSUME NEW i \in DOMAIN m, NEW j \in DOMAIN m, m[i] = m[j]  PROVE i = j
      OBVIOUS
    <3>1. i \in Nat /\ j \in Nat /\ w \in Nat
      BY <1>1, <2>5
    <3>2. CASE i <= w - 1 /\ j <= w - 1
      BY <1>1, <2>6, <3>2
    <3>3. CASE ~(i <= w - 1) /\ ~(j <= w - 1)
      <4>1. i + 1 = j + 1
        BY <1>1, <2>6, <3>3
      <4> QED  BY <3>1, <4>1
    <3>4. CASE i <= w - 1 /\ ~(j <= w - 1)
      <4>1. i = j + 1
        BY <1>1, <2>6, <3>4
      <4> QED  BY <3>1, <3>4, <4>1
    <3>5. CASE ~(i <= w - 1) /\ j <= w - 1
      <4>1. i + 1 = j
        BY <1>1, <2>6, <3>5
      <4> QED  BY <3>1, <3>5, <4>1
    <3> QED  BY <3>2, <3>3, <3>4, <3>5
  <2>8. ASSUME NEW i \in DOMAIN m
        PROVE  m[i] # n /\ \E j \in DOMAIN timers : m[i] = timers[j]
    <3>1. i \in Nat /\ w \in Nat
      BY <1>1, <2>5
    <3>2. CASE i <= w - 1
      <4>1. i # w
        BY <3>1, <3>2
      <4> QED  BY <1>1, <2>1, <2>6, <3>2, <4>1
    <3>3. CASE ~(i <= w - 1)
      <4>1. i + 1 # w
        BY <3>1, <3>3
      <4> QED  BY <1>1, <2>1, <2>6, <3>3, <4>1
    <3> QED  BY <3>2, <3>3
  <2> QED  BY <2>5, <2>7, <2>8 DEF m
<1> QED  BY <1>2, <1>3

(* A timer that is stopped leaves the others as they should be. *)
LEMMA TimersStopped ==
  ASSUME NEW t, NEW u, TimerInv(t, timers), NEW n,
         \A g \in Groups : Kind(g) = "timeout" /\ g # n /\ Waiting(t, g) => Waiting(u, g)
  PROVE  TimerInv(u, Without(n))
<1>1. ASSUME NEW i \in DOMAIN Without(n)
      PROVE  Kind(Without(n)[i]) = "timeout" /\ Waiting(u, Without(n)[i])
  <2>1. PICK j \in DOMAIN timers : Without(n)[i] = timers[j] /\ timers[j] # n
    BY WithoutIs
  <2>2. Kind(timers[j]) = "timeout" /\ Waiting(t, timers[j]) /\ timers[j] \in Groups
    BY DEF TimerInv
  <2> QED  BY <2>1, <2>2
<1> QED  BY <1>1, WithoutIs DEF TimerInv

-----------------------------------------------------------------------------
(* The parts of a start with promises. *)
LEMMA OncesAre ==
  ASSUME plan \in Promised
  PROVE  /\ Onces = {"monitor", "subscribeAck", "ice", "setLocalDescription", "createSDP",
                     "attachMediaInput", "createPeerConnection", "receiveAudioInput", "signaling",
                     "open"}
         /\ HeadOf("monitor") = "Monitor" /\ Dependencies("monitor") = {}
         /\ HeadOf("subscribeAck") = "SubscribeAndReceiveSubscribeAck"
         /\ Dependencies("subscribeAck") = {"ice"}
         /\ HeadOf("ice") = "FinishGatheringICECandidates"
         /\ Dependencies("ice") = {"setLocalDescription"}
         /\ HeadOf("setLocalDescription") = "SetLocalDescription"
         /\ Dependencies("setLocalDescription") = {"createSDP"}
         /\ HeadOf("createSDP") = "CreateSDP" /\ Dependencies("createSDP") = {"attachMediaInput"}
         /\ HeadOf("attachMediaInput") = "AttachMediaInput"
         /\ Dependencies("attachMediaInput") = {"createPeerConnection", "receiveAudioInput"}
         /\ HeadOf("createPeerConnection") = "CreatePeerConnection"
         /\ Dependencies("createPeerConnection") = {"signaling"}
         /\ HeadOf("receiveAudioInput") = "ReceiveAudioInput"
         /\ Dependencies("receiveAudioInput") = {}
         /\ HeadOf("signaling") = "Signaling" /\ Dependencies("signaling") = {}
         /\ HeadOf("open") = "openTimeout" /\ Dependencies("open") = {}
<1>0. plan \in DOMAIN Plan
  BY StartIs
<1> DEFINE ten == {"monitor", "subscribeAck", "ice", "setLocalDescription", "createSDP",
                   "attachMediaInput", "createPeerConnection", "receiveAudioInput", "signaling",
                   "open"}
<1>1. ten \subseteq Groups /\ \A x \in ten : Kind(x) = "once"
  BY StartIs
<1>2. Onces \subseteq ten
  <2> SUFFICES ASSUME NEW x \in Groups, Kind(x) = "once"  PROVE x \in ten
    BY DEF Onces
  <2>1. x \in ten \/ x \in {"root", "connectionTimeout", "Peer", "Signaling", "openTimeout",
                            "presenceTimeout", "FinalizeConnection"}
    BY StartIs
  <2>2. /\ Kind("root") = "serial" /\ Kind("connectionTimeout") = "timeout"
        /\ Kind("Peer") = "serial" /\ Kind("Signaling") = "serial"
        /\ Kind("openTimeout") = "timeout"
    BY StartIs
  <2>3. "presenceTimeout" \in Groups => Kind("presenceTimeout") = "timeout"
    BY StartIs
  <2>4. "FinalizeConnection" \in Groups => Kind("FinalizeConnection") = "parallel"
    BY StartIs
  <2> QED  BY <2>1, <2>2, <2>3, <2>4
<1>3. Onces = ten
  BY <1>1, <1>2 DEF Onces
<1>4. ASSUME NEW x \in ten
      PROVE  HeadOf(x) = Sub(x)[1] /\ Dependencies(x) = ToSet(Sub(x)) \ {Sub(x)[1]}
  BY <1>0, <1>1, <1>4, SubFacts
<1>5. \A x \in ten : \A a : Sub(x) = <<a>> => HeadOf(x) = a /\ Dependencies(x) = {}
  <2> SUFFICES ASSUME NEW x \in ten, NEW a, Sub(x) = <<a>>
               PROVE  HeadOf(x) = a /\ Dependencies(x) = {}
    OBVIOUS
  <2>1. ToSet(Sub(x)) = {a} /\ Sub(x)[1] = a
    BY TupleSets
  <2> QED  BY <1>4, <2>1
<1>6. \A x \in ten : \A a, b : Sub(x) = <<a, b>> /\ a # b => HeadOf(x) = a /\ Dependencies(x) = {b}
  <2> SUFFICES ASSUME NEW x \in ten, NEW a, NEW b, Sub(x) = <<a, b>>, a # b
               PROVE  HeadOf(x) = a /\ Dependencies(x) = {b}
    OBVIOUS
  <2>1. ToSet(Sub(x)) = {a, b} /\ Sub(x)[1] = a
    BY TupleSets
  <2> QED  BY <1>4, <2>1
<1>7. /\ HeadOf("attachMediaInput") = "AttachMediaInput"
      /\ Dependencies("attachMediaInput") = {"createPeerConnection", "receiveAudioInput"}
  <2>1. Sub("attachMediaInput") = <<"AttachMediaInput", "createPeerConnection", "receiveAudioInput">>
    BY StartIs
  <2>2. ToSet(Sub("attachMediaInput")) =
          {"AttachMediaInput", "createPeerConnection", "receiveAudioInput"}
    BY <2>1, TupleSets
  <2>3. Sub("attachMediaInput")[1] = "AttachMediaInput"
    BY <2>1
  <2> QED  BY <1>4, <2>2, <2>3
<1>8. /\ HeadOf("monitor") = "Monitor" /\ Dependencies("monitor") = {}
      /\ HeadOf("receiveAudioInput") = "ReceiveAudioInput"
      /\ Dependencies("receiveAudioInput") = {}
      /\ HeadOf("signaling") = "Signaling" /\ Dependencies("signaling") = {}
      /\ HeadOf("open") = "openTimeout" /\ Dependencies("open") = {}
  <2>1. /\ Sub("monitor") = <<"Monitor">> /\ Sub("receiveAudioInput") = <<"ReceiveAudioInput">>
        /\ Sub("signaling") = <<"Signaling">> /\ Sub("open") = <<"openTimeout">>
    BY StartIs
  <2> QED  BY <1>5, <2>1
<1>9. /\ HeadOf("subscribeAck") = "SubscribeAndReceiveSubscribeAck"
      /\ Dependencies("subscribeAck") = {"ice"}
      /\ HeadOf("ice") = "FinishGatheringICECandidates"
      /\ Dependencies("ice") = {"setLocalDescription"}
      /\ HeadOf("setLocalDescription") = "SetLocalDescription"
      /\ Dependencies("setLocalDescription") = {"createSDP"}
  <2>1. /\ Sub("subscribeAck") = <<"SubscribeAndReceiveSubscribeAck", "ice">>
        /\ Sub("ice") = <<"FinishGatheringICECandidates", "setLocalDescription">>
        /\ Sub("setLocalDescription") = <<"SetLocalDescription", "createSDP">>
    BY StartIs
  <2> QED  BY <1>6, <2>1
<1>10. /\ HeadOf("createSDP") = "CreateSDP" /\ Dependencies("createSDP") = {"attachMediaInput"}
       /\ HeadOf("createPeerConnection") = "CreatePeerConnection"
       /\ Dependencies("createPeerConnection") = {"signaling"}
  <2>1. /\ Sub("createSDP") = <<"CreateSDP", "attachMediaInput">>
        /\ Sub("createPeerConnection") = <<"CreatePeerConnection", "signaling">>
    BY StartIs
  <2> QED  BY <1>6, <2>1
<1> QED  BY <1>3, <1>7, <1>8, <1>9, <1>10

(* The microphone is left to itself: it is not refused, and nobody gives up    *)
(* waiting for it while the connection still comes.                            *)
InputInv(t) ==
  plan \in Promised =>
    /\ ~IsBroken(t, "ReceiveAudioInput")
    /\ IsBroken(t, "receiveAudioInput") => ~Waiting(t, "createPeerConnection")
Core(t, q, r) == TreeInv(t) /\ InputInv(t) /\ TickInv(t, q) /\ TimerInv(t, r)

(* What is rejected before a OnceTask is deeper, and a dependency of it as a rule. *)
LEMMA PrecedesIs ==
  ASSUME plan \in DOMAIN Plan, NEW x \in Onces, NEW d \in Onces, Precedes(d, x)
  PROVE  /\ Depth[d] < Depth[x]
         /\ \/ d \in Dependencies(x)
            \/ /\ plan \in Promised /\ d = "createPeerConnection" /\ x = "receiveAudioInput"
<1>1. plan \in Promised
  BY OthersAre
<1>2. /\ Depth["open"] = 1 /\ Depth["signaling"] = 2 /\ Depth["createPeerConnection"] = 3
      /\ Depth["receiveAudioInput"] = 4 /\ Depth["attachMediaInput"] = 5
      /\ Depth["createSDP"] = 6 /\ Depth["setLocalDescription"] = 7 /\ Depth["ice"] = 8
      /\ Depth["subscribeAck"] = 9 /\ Depth["monitor"] = 10
  BY DEF Depth
<1>3. CASE d = "createPeerConnection" /\ x = "receiveAudioInput"
  <2>1. Depth[d] = 3 /\ Depth[x] = 4
    BY <1>2, <1>3
  <2> QED  BY <1>1, <1>3, <2>1
<1>4. CASE d \in Dependencies(x)
  <2>1. \/ x = "subscribeAck" /\ d = "ice"
        \/ x = "ice" /\ d = "setLocalDescription"
        \/ x = "setLocalDescription" /\ d = "createSDP"
        \/ x = "createSDP" /\ d = "attachMediaInput"
        \/ x = "attachMediaInput" /\ d \in {"createPeerConnection", "receiveAudioInput"}
        \/ x = "createPeerConnection" /\ d = "signaling"
    BY <1>1, <1>4, OncesAre
  <2> QED  BY <1>2, <1>4, <2>1
<1>5. d \in Dependencies(x) \/ (d = "createPeerConnection" /\ x = "receiveAudioInput")
  BY DEF Precedes
<1> QED  BY <1>3, <1>4, <1>5

(* Who belongs to whom in a start. *)
LEMMA InputIs ==
  ASSUME plan \in Promised
  PROVE  /\ {"receiveAudioInput", "createPeerConnection", "attachMediaInput"} \subseteq Onces
         /\ {"receiveAudioInput", "createPeerConnection", "attachMediaInput"} \subseteq Groups
         /\ {"receiveAudioInput", "createPeerConnection"} \subseteq ToSet(Sub("attachMediaInput"))
         /\ \A g \in Groups : "createPeerConnection" \in ToSet(Sub(g))
                                \/ "receiveAudioInput" \in ToSet(Sub(g)) => g = "attachMediaInput"
         /\ "ReceiveAudioInput" \in Leaves
         /\ Task["ReceiveAudioInput"].failure = {} /\ Task["ReceiveAudioInput"].cancel = "ignored"
<1>0. plan \in DOMAIN Plan
  BY StartIs
<1>1. {"receiveAudioInput", "createPeerConnection", "attachMediaInput"} \subseteq Onces
  BY OncesAre
<1>2. {"receiveAudioInput", "createPeerConnection", "attachMediaInput"} \subseteq Groups
  BY <1>1 DEF Onces
<1>3. {"receiveAudioInput", "createPeerConnection"} \subseteq ToSet(Sub("attachMediaInput"))
  <2>1. Dependencies("attachMediaInput") = {"createPeerConnection", "receiveAudioInput"}
    BY OncesAre
  <2> QED  BY <1>0, <1>2, <2>1, SubFacts
<1>4. \A g \in Groups : "createPeerConnection" \in ToSet(Sub(g))
                          \/ "receiveAudioInput" \in ToSet(Sub(g)) => g = "attachMediaInput"
  <2>1. {"receiveAudioInput", "createPeerConnection"} \subseteq Node
    BY <1>0, <1>2, TreeFacts
  <2> QED  BY <1>0, <1>2, <1>3, <2>1, TreeFacts
<1>5. "ReceiveAudioInput" \in Leaves
  <2>1. "ReceiveAudioInput" \in Node
    <3>1. HeadOf("receiveAudioInput") = "ReceiveAudioInput"
      BY OncesAre
    <3> QED  BY <1>0, <1>2, <3>1, SubFacts
  <2>2. "ReceiveAudioInput" \notin Groups
    BY StartIs
  <2> QED  BY <2>1, <2>2 DEF Leaves
<1>6. Task["ReceiveAudioInput"].failure = {} /\ Task["ReceiveAudioInput"].cancel = "ignored"
  BY DEF Task, ReceiveAudioInput, Waits, Never
<1> QED  BY <1>1, <1>2, <1>3, <1>4, <1>5, <1>6

(* run() leaves what it does not begin, and begins what it does not leave. *)
LEMMA RanIs ==
  ASSUME plan \in DOMAIN Plan, NEW t, TreeInv(t), NEW n \in Node, NEW u, NEW R, Ran(t, u, n, R),
         NEW d \in Node
  PROVE  /\ u[d] = t[d] \/ (d \in R /\ Begins(t, u, d))
         /\ IsCanceled(u, d) <=> IsCanceled(t, d)
         /\ ~None(t, d) => u[d] = t[d]
<1>1. u[d] = t[d] \/ (d \in R /\ Begins(t, u, d))
  BY DEF Ran
<1>2. StatusOf(t, d)
  BY DEF TreeInv
<1>3. CASE u[d] = t[d]
  BY <1>3 DEF IsCanceled
<1>4. CASE d \in R /\ Begins(t, u, d)
  BY <1>2, <1>4, BeginsIs
<1> QED  BY <1>1, <1>3, <1>4

(* The callbacks to come stay the same. *)
LEMMA TicksStay ==
  ASSUME NEW t, NEW u, NEW q, TickInv(t, q),
         \A x \in Onces : IsCanceled(u, x) <=> IsCanceled(t, x),
         \A x \in Onces : IsCanceled(t, x) /\ u[HeadOf(x)].status \in {"idle", "running"} =>
           t[HeadOf(x)].status \in {"idle", "running"},
         \A x \in Onces : IsCanceled(t, x) /\ Waiting(u, x) => Waiting(t, x),
         \A x, d \in Onces : Precedes(d, x) /\ IsCanceled(t, x) /\ Waiting(u, d) => Waiting(t, d)
  PROVE  TickInv(u, q)
<1>1. q \in Seq(SUBSET Callbacks)
  BY DEF TickInv
<1>2. \A i \in DOMAIN q : q[i] # {} /\ \A k \in q[i] : k \in Callbacks /\ IsCanceled(t, k.on)
  BY <1>1 DEF TickInv
<1>3. \A i \in DOMAIN q : q[i] # {} /\ \A k \in q[i] : IsCanceled(u, k.on)
  BY <1>2 DEF Callbacks
<1>4. \A i, j \in DOMAIN q : \A k \in q[i], l \in q[j] : k.on = l.on => i = j
  BY DEF TickInv
<1>5. \A x \in Onces : IsCanceled(u, x) /\ u[HeadOf(x)].status \in {"idle", "running"} =>
        Comes(q, "cancel", x)
  BY DEF TickInv
<1>6. \A x \in Onces : IsCanceled(u, x) /\ Waiting(u, x) => Comes(q, "reject", x)
  BY DEF TickInv
<1>7. \A x, d \in Onces : Precedes(d, x) =>
        \A i \in DOMAIN q : Tick("reject", x) \in q[i] /\ Waiting(u, d) => ComesBy(q, d, i)
  <2> SUFFICES ASSUME NEW x \in Onces, NEW d \in Onces, Precedes(d, x), NEW i \in DOMAIN q,
                      Tick("reject", x) \in q[i], Waiting(u, d)
               PROVE  ComesBy(q, d, i)
    OBVIOUS
  <2>1. Tick("reject", x).on = x
    BY DEF Tick
  <2>2. IsCanceled(t, x)
    BY <1>2, <2>1
  <2>3. Waiting(t, d)
    BY <2>2
  <2> QED  BY <2>3 DEF TickInv
<1> QED  BY <1>1, <1>3, <1>4, <1>5, <1>6, <1>7 DEF TickInv

(* run() keeps the tasks, the callbacks and the timers as they should be. *)
LEMMA CoreRun ==
  ASSUME plan \in DOMAIN Plan, NEW t, Core(t, ticks, timers), NEW n \in Node, CanRun(t, n),
         Run(n, t)
  PROVE  Core(tasks', ticks, timers') /\ Ran(t, tasks', n, Reached(n, t))
<1> DEFINE u == tasks'
           R == Reached(n, t)
<1>1. TreeInv(t) /\ InputInv(t) /\ TickInv(t, ticks) /\ TimerInv(t, timers)
  BY DEF Core
<1>2. Ran(t, u, n, R)
  BY <1>1, RunIs
<1>3. TreeInv(u)
  BY <1>1, <1>2, RunKeeps
<1>4. \A d \in Node : /\ StatusOf(t, d) /\ StatusOf(u, d)
                      /\ t[d] \in Record /\ u[d] \in Record
  BY <1>1, <1>3 DEF TreeInv, State
<1>5. \A d \in Node : /\ u[d] = t[d] \/ (d \in R /\ Begins(t, u, d))
                      /\ IsCanceled(u, d) <=> IsCanceled(t, d)
                      /\ ~None(t, d) => u[d] = t[d]
  BY <1>1, <1>2, RanIs
<1>6. TimerInv(u, timers')
  <2> DEFINE S == {d \in Groups : /\ Kind(d) = "timeout"
                                  /\ d \in Node /\ t[d].status = "idle" /\ u[d].status = "running"}
  <2>1. timers' = timers \o SetToSeq(S)
    <3>1. u = [d \in Node |-> IF d \in R THEN baseRun(d, t[d]) ELSE t[d]]
      BY DEF Run
    <3> QED  BY <3>1 DEF Run
  <2>2. \A s \in S : Kind(s) = "timeout" /\ Waiting(u, s) /\ ~Waiting(t, s)
    <3> SUFFICES ASSUME NEW s \in S  PROVE Kind(s) = "timeout" /\ Waiting(u, s) /\ ~Waiting(t, s)
      OBVIOUS
    <3>1. s \notin Onces /\ s \in Node
      BY DEF Onces
    <3>2. StatusOf(t, s) /\ StatusOf(u, s)
      BY <1>4, <3>1
    <3> QED  BY <3>1, <3>2 DEF StatusOf, None, Waiting
  <2>3. \A g \in Groups : Waiting(t, g) => Waiting(u, g)
    <3> SUFFICES ASSUME NEW g \in Groups, Waiting(t, g)  PROVE Waiting(u, g)
      OBVIOUS
    <3>1. g \in Node
      BY TreeFacts
    <3>2. ~None(t, g)
      BY DEF None, Waiting
    <3> QED  BY <1>5, <3>1, <3>2 DEF Waiting
  <2> HIDE DEF S
  <2>4. S \subseteq Groups
    BY DEF S
  <2> QED  BY <1>1, <2>1, <2>2, <2>3, <2>4, TimersStarted
<1>7. TickInv(u, ticks)
  <2>3. \A x \in Onces : x \in Node /\ x \in Groups /\ HeadOf(x) \in Node
    BY TreeFacts, SubFacts DEF Onces
  <2>4. ASSUME NEW x \in Onces, IsCanceled(t, x), u[HeadOf(x)].status \in {"idle", "running"}
        PROVE  t[HeadOf(x)].status \in {"idle", "running"}
    <3> DEFINE h == HeadOf(x)
    <3>1. CASE u[h] = t[h]
      BY <2>4, <3>1
    <3>2. CASE Begins(t, u, h)
      BY <2>3, <2>4, <3>2 DEF Begins, IsCanceled
    <3> QED  BY <1>5, <2>3, <3>1, <3>2
  <2>5. \A x \in Onces : IsCanceled(t, x) => ~None(t, x)
    BY <1>4, <2>3 DEF StatusOf
  <2>6. \A x \in Onces : IsCanceled(t, x) /\ Waiting(u, x) => Waiting(t, x)
    BY <1>5, <2>3, <2>5 DEF Waiting
  <2>7. ASSUME NEW x \in Onces, NEW d \in Onces, Precedes(d, x), IsCanceled(t, x), Waiting(u, d)
        PROVE  Waiting(t, d)
    <3>1. ~None(t, x)
      BY <2>5, <2>7
    <3>2. ~None(t, d)
      <4>1. CASE d \in Dependencies(x)
        <5>1. FirstBegun(t, x) /\ Kind(x) = "once"
          BY <1>1, <2>3 DEF TreeInv, GroupInv, Onces
        <5> QED  BY <3>1, <4>1, <5>1 DEF FirstBegun
      <4>2. CASE plan \in Promised /\ d = "createPeerConnection" /\ x = "receiveAudioInput"
        <5> DEFINE a == "attachMediaInput"
        <5>1. a \in Groups /\ x \in ToSet(Sub(a)) /\ d \in Dependencies(a) /\ Kind(a) = "once"
          <6>1. a \in Onces /\ x \in ToSet(Sub(a))
            BY <4>2, InputIs
          <6>2. d \in Dependencies(a)
            BY <4>2, OncesAre
          <6> QED  BY <6>1, <6>2 DEF Onces
        <5>2. ChildNone(t, a) /\ FirstBegun(t, a)
          BY <1>1, <5>1 DEF TreeInv, GroupInv
        <5>3. ~None(t, a)
          BY <3>1, <4>2, <5>1, <5>2 DEF ChildNone
        <5> QED  BY <5>1, <5>2, <5>3 DEF FirstBegun
      <4> QED  BY <2>7, <4>1, <4>2, PrecedesIs
    <3> QED  BY <1>5, <2>3, <2>7, <3>2 DEF Waiting
  <2> QED  BY <1>1, <1>5, <2>3, <2>4, <2>6, <2>7, TicksStay
<1>8. InputInv(u)
  <2> SUFFICES ASSUME plan \in Promised
               PROVE  /\ ~IsBroken(u, "ReceiveAudioInput")
                      /\ IsBroken(u, "receiveAudioInput") => ~Waiting(u, "createPeerConnection")
    BY DEF InputInv
  <2> DEFINE a == "attachMediaInput"
             r == "receiveAudioInput"
             c == "createPeerConnection"
             h == "ReceiveAudioInput"
  <2>1. /\ a \in Groups /\ r \in Onces /\ c \in Onces /\ h \in Leaves /\ a \in Onces
        /\ r \in ToSet(Sub(a)) /\ c \in ToSet(Sub(a)) /\ r \in Groups /\ c \in Groups
        /\ r \in Node /\ c \in Node /\ h \in Node /\ a \in Node
    BY InputIs, TreeFacts DEF Leaves
  <2>2. /\ ~IsBroken(t, h) /\ IsBroken(t, r) => ~Waiting(t, c)
    BY <1>1 DEF InputInv
  <2>3. ~IsBroken(u, h)
    <3>1. ~IsCanceled(t, h) \/ ~None(t, h)
      <4>1. HeadFirst(t, r) /\ Kind(r) = "once"
        BY <1>1, <2>1 DEF TreeInv, GroupInv, Onces
      <4>2. HeadOf(r) = h /\ Dependencies(r) = {}
        BY OncesAre
      <4> QED  BY <4>1, <4>2 DEF HeadFirst
    <3>2. CASE u[h] = t[h]
      BY <1>1, <3>2 DEF IsBroken, InputInv
    <3>3. CASE Begins(t, u, h)
      BY <1>4, <2>1, <3>1, <3>3, BeginsIs
    <3> QED  BY <1>5, <2>1, <3>2, <3>3
  <2>4. ASSUME IsBroken(u, r), Waiting(u, c)  PROVE FALSE
    <3>1. ~Begins(t, u, r)
      <4>1. ~IsCanceled(t, r) \/ ~None(t, r)
        BY <1>4, <2>1 DEF StatusOf
      <4> QED  BY <1>4, <2>1, <2>4, <4>1, BeginsIs
    <3>2. u[r] = t[r] /\ IsBroken(t, r)
      BY <1>5, <2>1, <2>4, <3>1 DEF IsBroken
    <3>3. Begins(t, u, c) /\ c \in R
      <4>1. CASE u[c] = t[c]
        BY <1>1, <2>4, <3>2, <4>1 DEF InputInv, Waiting
      <4> QED  BY <1>5, <2>1, <4>1
    <3>4. None(t, a)
      <4>1. FirstBegun(t, a) /\ Kind(a) = "once"
        BY <1>1, <2>1 DEF TreeInv, GroupInv, Onces
      <4>2. c \in Dependencies(a)
        BY OncesAre
      <4>3. None(t, c)
        BY <3>3 DEF Begins
      <4> QED  BY <4>1, <4>2, <4>3 DEF FirstBegun
    <3>5. None(t, r)
      <4>1. ChildNone(t, a)
        BY <1>1, <2>1 DEF TreeInv, GroupInv
      <4> QED  BY <2>1, <3>4, <4>1 DEF ChildNone
    <3> QED  BY <3>2, <3>5 DEF IsBroken, None
  <2> QED  BY <2>3, <2>4
<1> QED  BY <1>2, <1>3, <1>6, <1>7, <1>8 DEF Core

(* So does a promise that is settled. *)
LEMMA CoreSettle ==
  ASSUME plan \in DOMAIN Plan, Core(tasks, ticks, timers), NEW n \in Node,
         NEW promise \in {"kept", "broken"}, CanSettle(tasks, n, promise), End(n, promise),
         plan \in Promised => /\ ~(n = "ReceiveAudioInput" /\ promise = "broken")
                              /\ ~(n = "receiveAudioInput" /\ promise = "broken")
  PROVE  Core(tasks', ticks, timers') /\ Settles(tasks, tasks', n, promise)
<1> DEFINE t == tasks
           u == tasks'
<1>1. TreeInv(t) /\ InputInv(t) /\ TickInv(t, ticks) /\ TimerInv(t, timers)
  BY DEF Core
<1>2. Settles(t, u, n, promise)
  BY <1>1, EndIs
<1>3. TreeInv(u)
  BY <1>1, <1>2, SettleKeeps
<1>4. \A d \in Node : d # n => u[d] = t[d]
  BY <1>2 DEF Settles
<1>5. /\ Waiting(t, n) /\ ~Waiting(u, n) /\ (IsCanceled(u, n) <=> IsCanceled(t, n))
      /\ IsBroken(u, n) => promise = "broken"
      /\ u[n].status = t[n].status \/ u[n].status = "finished"
  <2>1. u[n] = [status |-> IF n \in Onces \/ IsCanceled(t, n) THEN t[n].status ELSE "finished",
                promise |-> promise]
    BY <1>2 DEF Settles
  <2>2. Waiting(t, n)
    BY DEF CanSettle
  <2> QED  BY <2>1, <2>2 DEF Waiting, IsCanceled, IsBroken
<1>6. TimerInv(u, timers')
  <2>1. timers' = Without(n)
    BY DEF End
  <2>2. \A g \in Groups : g # n /\ Waiting(t, g) => Waiting(u, g)
    BY <1>4, TreeFacts DEF Waiting
  <2> QED  BY <1>1, <2>1, <2>2, TimersStopped
<1>7. TickInv(u, ticks)
  <2>3. \A x \in Onces : x \in Node /\ x \in Groups /\ HeadOf(x) \in Node
    BY TreeFacts, SubFacts DEF Onces
  <2>4. ASSUME NEW x \in Onces, u[HeadOf(x)].status \in {"idle", "running"}
        PROVE  t[HeadOf(x)].status \in {"idle", "running"}
    <3>1. CASE HeadOf(x) = n
      BY <1>5, <2>4, <3>1
    <3>2. CASE HeadOf(x) # n
      BY <1>4, <2>3, <2>4, <3>2
    <3> QED  BY <3>1, <3>2
  <2>5. \A x \in Onces : /\ IsCanceled(u, x) <=> IsCanceled(t, x)
                         /\ Waiting(u, x) => Waiting(t, x)
    <3> SUFFICES ASSUME NEW x \in Onces
                 PROVE  /\ IsCanceled(u, x) <=> IsCanceled(t, x)
                        /\ Waiting(u, x) => Waiting(t, x)
      OBVIOUS
    <3>1. CASE x = n
      BY <1>5, <3>1
    <3>2. CASE x # n
      BY <1>4, <2>3, <3>2 DEF IsCanceled, Waiting
    <3> QED  BY <3>1, <3>2
  <2> QED  BY <1>1, <2>4, <2>5, TicksStay
<1>8. InputInv(u)
  <2> SUFFICES ASSUME plan \in Promised
               PROVE  /\ ~IsBroken(u, "ReceiveAudioInput")
                      /\ IsBroken(u, "receiveAudioInput") => ~Waiting(u, "createPeerConnection")
    BY DEF InputInv
  <2> DEFINE r == "receiveAudioInput"
             c == "createPeerConnection"
             h == "ReceiveAudioInput"
  <2>1. r \in Node /\ c \in Node /\ h \in Node
    BY InputIs, TreeFacts DEF Leaves
  <2>2. ~IsBroken(t, h) /\ (IsBroken(t, r) => ~Waiting(t, c))
    BY <1>1 DEF InputInv
  <2>3. ~IsBroken(u, h)
    <3>1. CASE h = n
      BY <1>5, <3>1
    <3>2. CASE h # n
      BY <1>4, <2>1, <2>2, <3>2 DEF IsBroken
    <3> QED  BY <3>1, <3>2
  <2>4. IsBroken(u, r) => IsBroken(t, r)
    <3>1. CASE r = n
      BY <1>5, <3>1
    <3>2. CASE r # n
      BY <1>4, <2>1, <3>2 DEF IsBroken
    <3> QED  BY <3>1, <3>2
  <2>5. Waiting(u, c) => Waiting(t, c)
    <3>1. CASE c = n
      BY <1>5, <3>1
    <3>2. CASE c # n
      BY <1>4, <2>1, <3>2 DEF Waiting
    <3> QED  BY <3>1, <3>2
  <2> QED  BY <2>2, <2>3, <2>4, <2>5
<1> QED  BY <1>2, <1>3, <1>6, <1>7, <1>8 DEF Core

(* What cancel() leaves as it was. *)
LEMMA CanceledAre ==
  ASSUME plan \in DOMAIN Plan, NEW t, TreeInv(t), NEW n \in Node, NEW u, NEW C,
         Cancels(t, u, n, C), NEW d \in Node
  PROVE  /\ d \notin C => u[d] = t[d]
         /\ d \in C => IsCanceled(u, d) /\ ~IsCanceled(t, d)
         /\ d \notin Leaves \/ ~Waiting(t, d) => SamePromise(t, u, d)
         /\ Waiting(u, d) => Waiting(t, d)
         /\ None(u, d) <=> None(t, d)
         /\ IsBroken(u, d) /\ ~IsBroken(t, d) => d \in Leaves /\ Task[d].cancel = "rejects"
<1>1. CASE d \notin C
  <2>1. u[d] = t[d]
    BY <1>1 DEF Cancels
  <2> QED  BY <1>1, <2>1, SameIs DEF Same, Waiting, None, IsBroken, SamePromise
<1>2. CASE d \in C
  <2>1. /\ t[d].status \in {"idle", "running"} /\ u[d].status = "canceled"
        /\ d \notin Leaves \/ ~Waiting(t, d) => u[d].promise = t[d].promise
        /\ d \in Leaves /\ Waiting(t, d) => u[d].promise = Unanswered(Task[d].cancel)
    BY <1>2 DEF Cancels
  <2>2. IsCanceled(u, d) /\ ~IsCanceled(t, d)
    BY <2>1 DEF IsCanceled
  <2>3. CASE d \notin Leaves \/ ~Waiting(t, d)
    BY <1>2, <2>1, <2>2, <2>3 DEF SamePromise, None, Waiting, IsKept, IsBroken
  <2>4. CASE d \in Leaves /\ Waiting(t, d)
    <3>1. u[d].promise = Unanswered(Task[d].cancel)
      BY <2>1, <2>4
    <3>2. u[d].promise # "none" /\ (u[d].promise = "broken" => Task[d].cancel = "rejects")
      BY <3>1 DEF Unanswered
    <3> QED  BY <1>2, <2>2, <2>4, <3>2 DEF None, Waiting, IsBroken
  <2> QED  BY <2>3, <2>4
<1> QED  BY <1>1, <1>2

TicksOf(t, C) == UNION {OnceTicks(d, t) : d \in C \cap Onces}

(* The callbacks of the OnceTasks that cancel() reaches. *)
LEMMA TicksOfIs ==
  ASSUME NEW t, NEW C
  PROVE  /\ TicksOf(t, C) \in SUBSET Callbacks
         /\ \A k \in TicksOf(t, C) : k.on \in C
         /\ \A x \in Onces \cap C : /\ Tick("cancel", x) \in TicksOf(t, C)
                                    /\ ~None(t, x) => Tick("reject", x) \in TicksOf(t, C)
<1>1. ASSUME NEW d \in C \cap Onces
      PROVE  /\ OnceTicks(d, t) \subseteq Callbacks
             /\ \A k \in OnceTicks(d, t) : k.on = d
             /\ Tick("cancel", d) \in OnceTicks(d, t)
             /\ ~None(t, d) => Tick("reject", d) \in OnceTicks(d, t)
  <2>1. /\ Tick("cancel", d) \in Callbacks /\ Tick("reject", d) \in Callbacks
        /\ Tick("cancel", d).on = d /\ Tick("reject", d).on = d
    BY DEF Tick, Callbacks
  <2>2. CASE t[d].promise = "none"
    <3>1. OnceTicks(d, t) = {Tick("cancel", d)}
      BY <2>2 DEF OnceTicks
    <3> QED  BY <2>1, <2>2, <3>1 DEF None
  <2>3. CASE t[d].promise # "none"
    <3>1. OnceTicks(d, t) = {Tick("cancel", d), Tick("reject", d)}
      BY <2>3 DEF OnceTicks
    <3> QED  BY <2>1, <3>1
  <2> QED  BY <2>2, <2>3
<1> QED  BY <1>1 DEF TicksOf

(* cancel() keeps the callbacks as they should be. *)
LEMMA CancelTicks ==
  ASSUME plan \in DOMAIN Plan, NEW t, TreeInv(t), NEW n \in Node, CanCancel(t, n), NEW u, NEW C,
         Cancels(t, u, n, C), NEW q, TickInv(t, q), NEW p, p \in Seq(SUBSET Callbacks), NEW gone,
         Ticked(q, p, gone, TicksOf(t, C)),
         \A x \in Onces : Tick("cancel", x) \in gone => n = HeadOf(x),
         \A x \in Onces : Tick("reject", x) \notin gone
  PROVE  TickInv(u, p)
<1> DEFINE new == TicksOf(t, C)
<1>0. C \subseteq Node
  BY DEF Cancels
<1>1. \A d \in Node : /\ d \notin C => u[d] = t[d]
                      /\ d \in C => IsCanceled(u, d) /\ ~IsCanceled(t, d)
                      /\ Waiting(u, d) => Waiting(t, d)
                      /\ d \in C <=> /\ t[d].status \in {"idle", "running"}
                                     /\ \/ d = n
                                        \/ \E g \in Groups \cap C : /\ d \in ToSet(Sub(g))
                                                                    /\ d \in CancelsNow(g, t)
  BY CanceledAre DEF Cancels
<1>2. \A x \in Onces : x \in Node /\ x \in Groups /\ x \notin Leaves /\ HeadOf(x) \in Node
  BY TreeFacts, SubFacts DEF Onces, Leaves
<1>3. \A x \in Onces : IsCanceled(u, x) <=> IsCanceled(t, x) \/ x \in C
  BY <1>1, <1>2 DEF IsCanceled
<1>4. \A x \in Onces \cap C : ~IsCanceled(t, x)
  BY <1>1, <1>2
<1>5. ASSUME NEW d \in Node, u[d].status \in {"idle", "running"}
      PROVE  t[d].status \in {"idle", "running"} /\ d \notin C
  <2>1. d \notin C
    BY <1>1, <1>5 DEF IsCanceled
  <2> QED  BY <1>1, <1>5, <2>1
<1>6. \A x \in Onces : Tick("cancel", x) \in gone => u[HeadOf(x)].status \notin {"idle", "running"}
  <2> SUFFICES ASSUME NEW x \in Onces, n = HeadOf(x), u[n].status \in {"idle", "running"}
               PROVE  FALSE
    OBVIOUS
  <2> QED  BY <1>1, <1>5
<1>7. \A x \in Onces : IsCanceled(t, x) /\ u[HeadOf(x)].status \in {"idle", "running"} =>
        t[HeadOf(x)].status \in {"idle", "running"}
  BY <1>2, <1>5
<1>8. \A x \in Onces : IsCanceled(t, x) /\ Waiting(u, x) => Waiting(t, x)
  BY <1>1, <1>2
<1>9. /\ new \in SUBSET Callbacks
      /\ \A k \in new : k.on \in C
      /\ \A x \in Onces \cap C : Tick("cancel", x) \in new
      /\ \A x \in Onces \cap C : Waiting(u, x) => Tick("reject", x) \in new
  <2>1. \A x \in Onces \cap C : Waiting(u, x) => ~None(t, x)
    BY <1>1, <1>2 DEF Waiting, None
  <2> QED  BY <2>1, TicksOfIs
<1>10. ASSUME NEW x \in Onces, NEW d \in Onces, Precedes(d, x)
       PROVE  /\ x \in C /\ Waiting(u, d) => d \in C \/ (IsCanceled(t, d) /\ Waiting(t, d))
              /\ IsCanceled(t, x) /\ Waiting(u, d) => Waiting(t, d)
  <2>1. Waiting(u, d) => Waiting(t, d)
    BY <1>1, <1>2
  <2>2. t[d].status \in {"idle", "canceled"}
    <3>1. StatusOf(t, d)
      BY <1>2 DEF TreeInv
    <3> QED  BY <3>1 DEF StatusOf
  <2>3. ASSUME x \in C  PROVE \E g \in Groups \cap C : d \in Dependencies(g) /\ Kind(g) = "once"
    <3>1. CASE d \in Dependencies(x)
      BY <1>2, <2>3, <3>1 DEF Onces
    <3>2. CASE plan \in Promised /\ d = "createPeerConnection" /\ x = "receiveAudioInput"
      <4>1. x # n
        BY DEF CanCancel
      <4>2. PICK g \in Groups \cap C : x \in ToSet(Sub(g))
        BY <1>1, <1>2, <2>3, <4>1
      <4>3. g = "attachMediaInput" /\ g \in Onces
        BY <3>2, <4>2, InputIs
      <4>4. d \in Dependencies(g)
        BY <3>2, <4>3, OncesAre
      <4> QED  BY <4>2, <4>3, <4>4 DEF Onces
    <3> QED  BY <1>10, <3>1, <3>2, PrecedesIs
  <2>4. ASSUME x \in C, ~IsCanceled(t, d)  PROVE d \in C
    <3>1. PICK g \in Groups \cap C : d \in Dependencies(g) /\ Kind(g) = "once"
      BY <2>3, <2>4
    <3>2. d \in ToSet(Sub(g)) /\ d \in CancelsNow(g, t)
      BY <3>1, SubFacts, CancelsNowIs
    <3>3. t[d].status = "idle"
      BY <2>2, <2>4 DEF IsCanceled
    <3> QED  BY <1>1, <1>2, <3>2, <3>3
  <2> QED  BY <2>1, <2>4
<1> HIDE DEF new
<1>11. Ticked(q, p, gone, new)
  BY DEF new
<1>12. \A x \in Onces : Tick("reject", x) \in gone => ~Waiting(u, x)
  OBVIOUS
<1>13. Follows(t, u, q, p, gone, new, C)
  BY <1>3, <1>4, <1>6, <1>7, <1>8, <1>9, <1>10, <1>11, <1>12 DEF Follows
<1> QED
  BY <1>13, TicksKeep

(* And the tasks and the timers with them. *)
LEMMA CoreCancels ==
  ASSUME plan \in DOMAIN Plan, NEW t, NEW q, NEW r, Core(t, q, r), NEW n \in Node, CanCancel(t, n),
         NEW u, NEW C, Cancels(t, u, n, C), NEW p, TickInv(u, p)
  PROVE  Core(u, p, r)
<1>1. TreeInv(t) /\ InputInv(t) /\ TimerInv(t, r)
  BY DEF Core
<1>2. TreeInv(u)
  BY <1>1, CancelKeeps
<1>3. \A d \in Node : /\ d \notin Leaves \/ ~Waiting(t, d) => SamePromise(t, u, d)
                      /\ IsBroken(u, d) /\ ~IsBroken(t, d) =>
                           d \in Leaves /\ Task[d].cancel = "rejects"
                      /\ Waiting(u, d) => Waiting(t, d)
  BY <1>1, CanceledAre
<1>4. \A g \in Groups : g \in Node /\ g \notin Leaves
  BY TreeFacts DEF Leaves
<1>5. TimerInv(u, r)
  <2>1. \A g \in Groups : Waiting(u, g) <=> Waiting(t, g)
    BY <1>3, <1>4 DEF SamePromise
  <2>2. r \in Seq(Groups) /\ \A i \in DOMAIN r : r[i] \in Groups
    BY <1>1 DEF TimerInv
  <2> QED  BY <1>1, <2>1, <2>2 DEF TimerInv
<1>6. InputInv(u)
  <2> SUFFICES ASSUME plan \in Promised  PROVE InputInv(u)
    BY DEF InputInv
  <2>1. ~IsBroken(t, "ReceiveAudioInput")
        /\ (IsBroken(t, "receiveAudioInput") => ~Waiting(t, "createPeerConnection"))
    BY <1>1 DEF InputInv
  <2>2. ~IsBroken(u, "ReceiveAudioInput")
    <3>1. "ReceiveAudioInput" \in Node
      BY InputIs DEF Leaves
    <3> QED  BY <1>3, <2>1, <3>1, InputIs
  <2>3. IsBroken(u, "receiveAudioInput") => IsBroken(t, "receiveAudioInput")
    <3>1. "receiveAudioInput" \in Groups
      BY InputIs
    <3> QED  BY <1>3, <1>4, <3>1
  <2>4. Waiting(u, "createPeerConnection") => Waiting(t, "createPeerConnection")
    <3>1. "createPeerConnection" \in Groups
      BY InputIs
    <3> QED  BY <1>3, <1>4, <3>1
  <2> QED  BY <2>1, <2>2, <2>3, <2>4 DEF InputInv
<1> QED  BY <1>2, <1>5, <1>6 DEF Core

(* The first callback of a OnceTask that is rejected: its task was canceled,   *)
(* and what it depends on does not wait.                                        *)
LEMMA RejectedFirst ==
  ASSUME plan \in DOMAIN Plan, TreeInv(tasks), TickInv(tasks, ticks), ticks # <<>>,
         NEW tick \in Head(ticks), \A other \in Head(ticks) \ {tick} : Sooner(tick, other),
         tick.call # "cancel"
  PROVE  /\ tick.on \in Onces /\ tick = Tick("reject", tick.on) /\ IsCanceled(tasks, tick.on)
         /\ tasks[HeadOf(tick.on)].status \notin {"idle", "running"}
         /\ \A d \in Onces : Precedes(d, tick.on) => ~Waiting(tasks, d)
<1> DEFINE x == tick.on
           t == tasks
           q == ticks
<1>1. /\ q \in Seq(SUBSET Callbacks) /\ Len(q) \in Nat \ {0} /\ DOMAIN q = 1..Len(q)
      /\ Head(q) = q[1] /\ 1 \in DOMAIN q
  BY DEF TickInv
<1>2. tick \in Callbacks /\ tick \in q[1]
  BY <1>1
<1>3. x \in Onces /\ tick = Tick("reject", x) /\ tick.call = "reject"
  <2>1. \E c \in {"cancel", "reject"}, y \in Onces : tick = [call |-> c, on |-> y]
    BY <1>2, Zenon DEF Callbacks
  <2> QED  BY <2>1 DEF Tick
<1>4. IsCanceled(t, x)
  BY <1>1, <1>2 DEF TickInv
<1>5. t[HeadOf(x)].status \notin {"idle", "running"}
  <2> SUFFICES ASSUME t[HeadOf(x)].status \in {"idle", "running"}  PROVE FALSE
    OBVIOUS
  <2>1. Comes(q, "cancel", x)
    BY <1>3, <1>4 DEF TickInv
  <2>2. PICK i \in DOMAIN q : Tick("cancel", x) \in q[i]
    BY <2>1 DEF Comes
  <2>3. Tick("cancel", x).on = x /\ Tick("cancel", x).call = "cancel"
    BY DEF Tick
  <2>4. i = 1
    <3>1. \A j, k \in DOMAIN q : \A a \in q[j], b \in q[k] : a.on = b.on => j = k
      BY DEF TickInv
    <3> QED  BY <1>1, <1>2, <2>2, <2>3, <3>1
  <2>5. Tick("cancel", x) \in Head(q) \ {tick}
    BY <1>1, <1>3, <2>2, <2>3, <2>4
  <2>6. Sooner(tick, Tick("cancel", x))
    BY <2>5
  <2>7. Depth[x] < Depth[x]
    BY <1>3, <2>3, <2>6 DEF Sooner
  <2>8. Depth[x] \in Nat
    <3>1. plan \in Promised
      BY <1>3, OthersAre
    <3>2. Onces = {"monitor", "subscribeAck", "ice", "setLocalDescription", "createSDP",
                   "attachMediaInput", "createPeerConnection", "receiveAudioInput", "signaling",
                   "open"}
      BY <3>1, OncesAre
    <3> QED  BY <1>3, <3>2 DEF Depth
  <2> QED  BY <2>7, <2>8
<1>6. ASSUME NEW d \in Onces, Precedes(d, x), Waiting(t, d)  PROVE FALSE
  <2>1. ComesBy(q, d, 1)
    BY <1>1, <1>2, <1>3, <1>6 DEF TickInv
  <2>2. Tick("reject", d) \in Head(q)
    BY <1>1, <2>1 DEF ComesBy
  <2>3. Tick("reject", d).on = d /\ Depth[d] < Depth[x]
    BY <1>3, <1>6, PrecedesIs DEF Tick
  <2>4. d # x
    <3>1. plan \in Promised
      BY <1>3, OthersAre
    <3> QED  BY <1>3, <2>3, <3>1, OncesAre DEF Depth
  <2>5. Sooner(tick, Tick("reject", d))
    BY <1>3, <2>2, <2>3, <2>4
  <2>6. Depth[x] < Depth[d]
    BY <1>3, <2>3, <2>4, <2>5 DEF Sooner
  <2>7. Depth[x] \in Nat /\ Depth[d] \in Nat
    <3>1. plan \in Promised
      BY <1>3, OthersAre
    <3>2. Onces = {"monitor", "subscribeAck", "ice", "setLocalDescription", "createSDP",
                   "attachMediaInput", "createPeerConnection", "receiveAudioInput", "signaling",
                   "open"}
      BY <3>1, OncesAre
    <3> QED  BY <1>3, <3>2 DEF Depth
  <2> QED  BY <2>3, <2>6, <2>7
<1> QED  BY <1>3, <1>4, <1>5, <1>6

(* So does the callback that rejects a OnceTask. *)
LEMMA CoreReject ==
  ASSUME plan \in DOMAIN Plan, Core(tasks, ticks, timers), ticks # <<>>,
         NEW tick \in Head(ticks), \A other \in Head(ticks) \ {tick} : Sooner(tick, other),
         tick.call # "cancel",
         ticks' = Batch(Head(ticks) \ {tick}) \o Tail(ticks),
         tasks' = IF Pending(tick.on)
                  THEN [tasks EXCEPT ![tick.on].promise = "broken"] ELSE tasks
  PROVE  /\ Core(tasks', ticks', timers) /\ tick.on \in Onces
         /\ \/ tasks' = tasks
            \/ Waiting(tasks, tick.on) /\ Settles(tasks, tasks', tick.on, "broken")
<1> DEFINE x == tick.on
           t == tasks
           u == tasks'
<1>1. TreeInv(t) /\ InputInv(t) /\ TickInv(t, ticks) /\ TimerInv(t, timers)
  BY DEF Core
<1>2. /\ x \in Onces /\ tick = Tick("reject", x) /\ IsCanceled(t, x)
      /\ t[HeadOf(x)].status \notin {"idle", "running"}
      /\ \A d \in Onces : Precedes(d, x) => ~Waiting(t, d)
  BY <1>1, RejectedFirst
<1>3. /\ x \in Node /\ x \in Groups /\ Kind(x) = "once" /\ HeadOf(x) \in Node
      /\ \A d \in Dependencies(x) : d \in Onces /\ d \in Node
      /\ \A y \in Onces : y \in Node /\ HeadOf(y) \in Node /\ HeadOf(y) \notin Onces
  BY <1>2, TreeFacts, SubFacts DEF Onces
<1>4. \A d \in Node : t[d] \in Record /\ StatusOf(t, d)
  BY <1>1 DEF TreeInv, State
<1>5. CASE ~Pending(x)
  <2>1. u = t /\ ~Waiting(t, x)
    BY <1>5, NamesAre
  <2> QED
    <3>1. Follows(t, u, ticks, ticks', {tick}, {}, {})
      <4>1. /\ {} \in SUBSET Callbacks /\ ticks' \in Seq(SUBSET Callbacks)
            /\ Ticked(ticks, ticks', {tick}, {})
        BY <1>1, TicksRun
      <4>2. \A y \in Onces : /\ Tick("cancel", y) \in {tick} => FALSE
                             /\ Tick("reject", y) \in {tick} => y = x
        BY <1>2 DEF Tick
      <4> QED  BY <2>1, <4>1, <4>2 DEF Follows
    <3>2. TickInv(u, ticks')
      BY <1>1, <3>1, TicksKeep
    <3> QED  BY <1>1, <1>2, <2>1, <3>2 DEF Core
<1>6. CASE Pending(x)
  <2>1. Waiting(t, x)
    BY <1>6, NamesAre
  <2>2. CanSettle(t, x, "broken")
    <3>1. \A d \in Dependencies(x) \ {"receiveAudioInput"} : ~Waiting(t, d)
      BY <1>2, <1>3 DEF Precedes
    <3>2. Waiting(t, HeadOf(x)) => IsCanceled(t, HeadOf(x))
      <4>1. StatusOf(t, HeadOf(x)) /\ t[HeadOf(x)] \in Record /\ HeadOf(x) \notin Onces
        BY <1>2, <1>3, <1>4
      <4>2. t[HeadOf(x)].status \in {"idle", "running", "canceled", "finished"}
        BY <4>1 DEF Record
      <4> QED  BY <1>2, <4>1, <4>2 DEF StatusOf, Waiting, IsCanceled, None, IsKept, IsBroken
    <3>3. None(t, HeadOf(x)) => IsCanceled(t, HeadOf(x))
      <4>1. StatusOf(t, HeadOf(x)) /\ t[HeadOf(x)] \in Record /\ HeadOf(x) \notin Onces
        BY <1>2, <1>3, <1>4
      <4>2. t[HeadOf(x)].status \in {"idle", "running", "canceled", "finished"}
        BY <4>1 DEF Record
      <4> QED  BY <1>2, <4>1, <4>2 DEF StatusOf, Waiting, IsCanceled, None, IsKept, IsBroken
    <3> QED  BY <1>3, <2>1, <3>1, <3>2, <3>3 DEF CanSettle
  <2>3. Settles(t, u, x, "broken")
    <3>1. u = [t EXCEPT ![x].promise = "broken"]
      BY <1>6
    <3>2. t \in [Node -> Record] /\ t[x] \in Record
      BY <1>1, <1>3 DEF TreeInv, State
    <3>3. \E s \in {"idle", "running", "canceled", "finished"},
             p \in {"none", "pending", "kept", "broken"} : t[x] = [status |-> s, promise |-> p]
      BY <3>2, Zenon DEF Record
    <3>4. u[x] = [status |-> t[x].status, promise |-> "broken"]
      BY <1>3, <3>1, <3>2, <3>3
    <3>5. u[x] \in Record
      BY <3>3, <3>4 DEF Record
    <3>6. u \in [Node -> Record] /\ \A d \in Node \ {x} : u[d] = t[d]
      BY <1>3, <3>1, <3>2, <3>5
    <3> QED  BY <1>2, <3>4, <3>6 DEF Settles, State
  <2>4. TreeInv(u)
    BY <1>1, <1>3, <2>2, <2>3, SettleKeeps
  <2>5. \A d \in Node : d # x => u[d] = t[d]
    BY <2>3 DEF Settles
  <2>6. ~Waiting(u, x) /\ (IsCanceled(u, x) <=> IsCanceled(t, x))
    BY <1>2, <2>3 DEF Settles, Waiting, IsCanceled
  <2>7. TickInv(u, ticks')
    <3>1. /\ {} \in SUBSET Callbacks /\ ticks' \in Seq(SUBSET Callbacks)
          /\ Ticked(ticks, ticks', {tick}, {})
      BY <1>1, TicksRun
    <3>2. \A y \in Onces : /\ Tick("cancel", y) \notin {tick}
                           /\ Tick("reject", y) \in {tick} => y = x
      BY <1>2 DEF Tick
    <3>3. \A y \in Onces : /\ IsCanceled(u, y) <=> IsCanceled(t, y)
                           /\ Waiting(u, y) => Waiting(t, y)
                           /\ u[HeadOf(y)] = t[HeadOf(y)]
      <4> SUFFICES ASSUME NEW y \in Onces
                   PROVE  /\ IsCanceled(u, y) <=> IsCanceled(t, y)
                          /\ Waiting(u, y) => Waiting(t, y)
                          /\ u[HeadOf(y)] = t[HeadOf(y)]
        OBVIOUS
      <4>1. u[HeadOf(y)] = t[HeadOf(y)]
        BY <1>2, <1>3, <2>5
      <4>2. CASE y = x
        BY <2>6, <4>1, <4>2
      <4>3. CASE y # x
        <5>1. u[y] = t[y]
          BY <1>3, <2>5, <4>3
        <5> QED  BY <4>1, <5>1 DEF IsCanceled, Waiting
      <4> QED  BY <4>2, <4>3
    <3>4. Follows(t, u, ticks, ticks', {tick}, {}, {})
      BY <2>6, <3>1, <3>2, <3>3 DEF Follows
    <3> QED  BY <1>1, <3>4, TicksKeep
  <2>8. TimerInv(u, timers)
    <3>1. \A g \in Groups : Kind(g) = "timeout" => u[g] = t[g]
      BY <1>3, <2>5, TreeFacts
    <3>2. timers \in Seq(Groups) /\ \A i \in DOMAIN timers : timers[i] \in Groups
      BY <1>1 DEF TimerInv
    <3> QED  BY <1>1, <3>1, <3>2 DEF TimerInv, Waiting
  <2>9. InputInv(u)
    <3> SUFFICES ASSUME plan \in Promised  PROVE InputInv(u)
      BY DEF InputInv
    <3> DEFINE r == "receiveAudioInput"
               c == "createPeerConnection"
               h == "ReceiveAudioInput"
    <3>1. r \in Node /\ c \in Node /\ h \in Node /\ h \notin Groups /\ c \in Onces
      BY InputIs, TreeFacts DEF Leaves
    <3>2. ~IsBroken(t, h) /\ (IsBroken(t, r) => ~Waiting(t, c))
      BY <1>1 DEF InputInv
    <3>3. ~IsBroken(u, h)
      BY <1>3, <2>5, <3>1, <3>2 DEF IsBroken
    <3>4. Waiting(u, c) => Waiting(t, c)
      <4>1. CASE c = x
        BY <2>1, <4>1
      <4>2. CASE c # x
        BY <2>5, <3>1, <4>2 DEF Waiting
      <4> QED  BY <4>1, <4>2
    <3>5. CASE x = r
      <4>1. ~Waiting(t, c)
        BY <1>2, <3>1, <3>5 DEF Precedes
      <4> QED  BY <3>3, <3>4, <4>1 DEF InputInv
    <3>6. CASE x # r
      <4>1. IsBroken(u, r) => IsBroken(t, r)
        BY <2>5, <3>1, <3>6 DEF IsBroken
      <4> QED  BY <3>2, <3>3, <3>4, <4>1 DEF InputInv
    <3> QED  BY <3>5, <3>6
  <2> QED  BY <1>2, <2>1, <2>3, <2>4, <2>7, <2>8, <2>9 DEF Core
<1> QED  BY <1>5, <1>6

-----------------------------------------------------------------------------
(* Tasks made anew. *)

Early == {"open", "openTimeout", "OpenSignalingConnection"}
Renew(t, u) ==
  /\ State(u) /\ \A n \in Node \ Early : u[n] = New
  /\ (\A n \in Early : u[n] = t[n]) \/ (\A n \in Early : u[n] = New)

(* A task that was made anew. *)
LEMMA NewIs ==
  ASSUME NEW u, NEW n \in Node, u[n] = New
  PROVE  None(u, n) /\ ~IsCanceled(u, n) /\ ~Waiting(u, n) /\ StatusOf(u, n)
BY DEF New, None, IsCanceled, Waiting, StatusOf

(* A new group with new subtasks. *)
LEMMA GroupNew ==
  ASSUME plan \in DOMAIN Plan, NEW u, NEW g \in Groups, None(u, g), ~IsCanceled(u, g),
         \A d \in ToSet(Sub(g)) \ {"open"} : None(u, d) /\ ~IsCanceled(u, d)
  PROVE  GroupInv(u, g)
<1>1. /\ ~Waiting(u, g) /\ ~IsKept(u, g) /\ ~IsBroken(u, g)
  BY DEF None, Waiting, IsKept, IsBroken
<1>2. \A d : None(u, d) => ~Waiting(u, d)
  BY DEF None, Waiting
<1>3. /\ HeadOf(g) \in ToSet(Sub(g)) /\ HeadOf(g) = Sub(g)[1]
      /\ Dependencies(g) \subseteq ToSet(Sub(g))
      /\ \A i \in DOMAIN Sub(g) : Sub(g)[i] \in ToSet(Sub(g)) /\ i \in Nat /\ i >= 1
      /\ \A i, j \in DOMAIN Sub(g) : Sub(g)[i] = Sub(g)[j] => i = j
      /\ 1 \in DOMAIN Sub(g)
  <2>1. DOMAIN Sub(g) = 1..Len(Sub(g)) /\ Len(Sub(g)) \in Nat \ {0}
    BY SubFacts
  <2> QED  BY <2>1, SubFacts, TreeFacts
<1>4. "open" \in ToSet(Sub(g)) => Kind(g) = "serial" /\ HeadOf(g) = "open"
  BY OpenFacts
<1>5. ChildNone(u, g) /\ FirstBegun(u, g) /\ KeptSubs(u, g) /\ ChildPending(u, g)
  BY <1>1, <1>2 DEF ChildNone, FirstBegun, KeptSubs, ChildPending
<1>6. InSeries(u, g)
  <2> SUFFICES ASSUME NEW i \in DOMAIN Sub(g), NEW j \in DOMAIN Sub(g), i < j, ~None(u, Sub(g)[j])
               PROVE  FALSE
    BY DEF InSeries
  <2>1. Sub(g)[j] = "open"
    BY <1>3
  <2>2. Sub(g)[j] = Sub(g)[1]
    BY <1>3, <1>4, <2>1
  <2>3. j = 1
    BY <1>3, <2>2
  <2> QED  BY <1>3, <2>3
<1>7. Kind(g) = "once" => \A d \in ToSet(Sub(g)) : None(u, d) /\ ~IsCanceled(u, d)
  BY <1>4
<1>8. DepPending(u, g) /\ HeadPending(u, g) /\ HeadAfter(u, g) /\ HeadNever(u, g) /\ HeadFirst(u, g)
  BY <1>1, <1>2, <1>3, <1>7 DEF DepPending, HeadPending, HeadAfter, HeadNever, HeadFirst
<1>9. CancelDown(u, g)
  BY DEF CancelDown
<1> QED  BY <1>5, <1>6, <1>8, <1>9 DEF GroupInv

(* A group that is left as it is, with its subtasks. *)
LEMMA GroupSame ==
  ASSUME plan \in DOMAIN Plan, NEW t, NEW u, NEW g \in Groups, u[g] = t[g],
         \A d \in ToSet(Sub(g)) : u[d] = t[d], GroupInv(t, g)
  PROVE  GroupInv(u, g)
<1>1. Same(t, u, g)
  BY SameIs
<1>2. \A d \in ToSet(Sub(g)) : Same(t, u, d)
  BY SameIs
<1>3. /\ HeadOf(g) \in ToSet(Sub(g)) /\ Dependencies(g) \subseteq ToSet(Sub(g))
      /\ RunsFirst(g) \subseteq ToSet(Sub(g))
      /\ \A i \in DOMAIN Sub(g) : Sub(g)[i] \in ToSet(Sub(g))
  BY SubFacts, RunsFirstIs
<1>4. ChildNone(u, g) /\ FirstBegun(u, g) /\ KeptSubs(u, g) /\ ChildPending(u, g)
  <2>1. ChildNone(u, g)
    BY <1>1, <1>2 DEF GroupInv, ChildNone, Same, SamePromise
  <2>2. FirstBegun(u, g)
    BY <1>1, <1>2, <1>3 DEF GroupInv, FirstBegun, Same, SamePromise
  <2>3. KeptSubs(u, g)
    BY <1>1, <1>2, <1>3 DEF GroupInv, KeptSubs, Same, SamePromise
  <2>4. ChildPending(u, g)
    BY <1>1, <1>2 DEF GroupInv, ChildPending, Same, SamePromise
  <2> QED  BY <2>1, <2>2, <2>3, <2>4
<1>5. InSeries(u, g)
  BY <1>2, <1>3 DEF GroupInv, InSeries, Same, SamePromise
<1>6. DepPending(u, g) /\ HeadPending(u, g)
  BY <1>1, <1>2, <1>3 DEF GroupInv, DepPending, HeadPending, Same, SamePromise
<1>7. HeadAfter(u, g) /\ HeadFirst(u, g)
  BY <1>1, <1>2, <1>3 DEF GroupInv, HeadAfter, HeadFirst, Same, SamePromise
<1>8. HeadNever(u, g)
  BY <1>1, <1>2, <1>3 DEF GroupInv, HeadNever, Same, SamePromise
<1>9. CancelDown(u, g)
  BY <1>1, <1>2 DEF GroupInv, CancelDown, Same, SamePromise
<1> QED  BY <1>4, <1>5, <1>6, <1>7, <1>8, <1>9 DEF GroupInv

(* The tasks of the early connection. *)
LEMMA EarlyIs ==
  ASSUME plan \in Promised
  PROVE  /\ Early \subseteq Node /\ "open" \in Groups /\ "openTimeout" \in Groups
         /\ "open" \in Onces /\ "openTimeout" \notin Onces
         /\ Kind("open") = "once" /\ Kind("openTimeout") = "timeout"
         /\ "OpenSignalingConnection" \in Leaves /\ "root" \notin Early
         /\ ToSet(Sub("open")) = {"openTimeout"}
         /\ ToSet(Sub("openTimeout")) = {"OpenSignalingConnection"}
         /\ \A g \in Groups : /\ "openTimeout" \in ToSet(Sub(g)) => g = "open"
                              /\ "OpenSignalingConnection" \in ToSet(Sub(g)) => g = "openTimeout"
         /\ Task["OpenSignalingConnection"].cancel = "rejects"
         /\ Task["OpenSignalingConnection"].waits
<1>0. plan \in DOMAIN Plan
  BY StartIs
<1>1. /\ "open" \in Groups /\ "openTimeout" \in Groups
      /\ Kind("open") = "once" /\ Kind("openTimeout") = "timeout"
      /\ Sub("open") = <<"openTimeout">> /\ Sub("openTimeout") = <<"OpenSignalingConnection">>
      /\ "OpenSignalingConnection" \notin Groups
  BY StartIs
<1>2. /\ ToSet(Sub("open")) = {"openTimeout"}
      /\ ToSet(Sub("openTimeout")) = {"OpenSignalingConnection"}
  BY <1>1, TupleSets
<1>3. "open" \in Onces /\ "openTimeout" \notin Onces
  BY <1>1 DEF Onces
<1>4. Early \subseteq Node /\ "OpenSignalingConnection" \in Leaves
  <2>1. "OpenSignalingConnection" \in Node
    BY <1>0, <1>1, <1>2, SubFacts
  <2> QED  BY <1>0, <1>1, <2>1, TreeFacts DEF Early, Leaves
<1>5. \A g \in Groups : /\ "openTimeout" \in ToSet(Sub(g)) => g = "open"
                        /\ "OpenSignalingConnection" \in ToSet(Sub(g)) => g = "openTimeout"
  <2>1. "openTimeout" \in Node /\ "OpenSignalingConnection" \in Node
    BY <1>4 DEF Early
  <2> QED  BY <1>0, <1>1, <1>2, <2>1, TreeFacts
<1>6. /\ Task["OpenSignalingConnection"].cancel = "rejects"
      /\ Task["OpenSignalingConnection"].waits
  BY DEF Task, OpenSignalingConnection, Waits
<1>7. "root" \notin Early
  BY DEF Early
<1> QED  BY <1>1, <1>2, <1>3, <1>4, <1>5, <1>6, <1>7

(* New tasks, but for the early connection's, keep the invariants. *)
LEMMA RenewKeeps ==
  ASSUME plan \in Promised, NEW t, TreeInv(t), NEW u, Renew(t, u)
  PROVE  /\ TreeInv(u) /\ InputInv(u)
         /\ TickInv(t, <<>>) => TickInv(u, <<>>)
<1>0. plan \in DOMAIN Plan
  BY StartIs
<1>1. \A n \in Node \ Early : u[n] = New
  BY DEF Renew
<1>2. /\ Early \subseteq Node
      /\ (\A n \in Early : u[n] = t[n]) \/ (\A n \in Early : u[n] = New)
  BY EarlyIs DEF Renew
<1>3. \A n \in Node : StatusOf(u, n)
  <2> SUFFICES ASSUME NEW n \in Node  PROVE StatusOf(u, n)
    OBVIOUS
  <2>1. CASE u[n] = New
    BY <2>1, NewIs
  <2>2. CASE u[n] = t[n]
    <3>1. StatusOf(t, n)
      BY DEF TreeInv
    <3> QED  BY <2>2, <3>1 DEF StatusOf, IsCanceled, None, Waiting, IsKept, IsBroken
  <2> QED  BY <1>1, <1>2, <2>1, <2>2
<1>4. \A g \in Groups : GroupInv(u, g)
  <2> SUFFICES ASSUME NEW g \in Groups  PROVE GroupInv(u, g)
    OBVIOUS
  <2>1. g \in Node /\ ToSet(Sub(g)) \subseteq Node /\ GroupInv(t, g)
    BY <1>0, TreeFacts, SubFacts DEF TreeInv
  <2>2. CASE g \in Early
    <3>1. ToSet(Sub(g)) \subseteq Early
      <4>1. g = "open" \/ g = "openTimeout"
        BY <2>2, EarlyIs DEF Early, Leaves
      <4> QED  BY <4>1, EarlyIs DEF Early
    <3>2. CASE \A n \in Early : u[n] = t[n]
      BY <1>0, <2>1, <2>2, <3>1, <3>2, GroupSame
    <3>3. CASE \A n \in Early : u[n] = New
      <4>1. \A n \in Early : None(u, n) /\ ~IsCanceled(u, n)
        BY <1>2, <3>3, NewIs
      <4> QED  BY <1>0, <2>2, <3>1, <4>1, GroupNew
    <3> QED  BY <1>2, <3>2, <3>3
  <2>3. CASE g \notin Early
    <3>1. \A n \in Node \ Early : None(u, n) /\ ~IsCanceled(u, n)
      BY <1>1, NewIs
    <3>2. \A d \in ToSet(Sub(g)) \ {"open"} : d \in Node \ Early
      BY <2>1, <2>3, EarlyIs DEF Early
    <3> QED  BY <1>0, <2>1, <2>3, <3>1, <3>2, GroupNew
  <2> QED  BY <2>2, <2>3
<1>5. TreeInv(u)
  BY <1>3, <1>4 DEF TreeInv, Renew
<1>6. InputInv(u)
  <2>1. {"ReceiveAudioInput", "receiveAudioInput"} \subseteq Node \ Early
    BY <1>0, InputIs, TreeFacts DEF Leaves, Early
  <2>2. \A n \in Node \ Early : None(u, n)
    BY <1>1, NewIs
  <2>3. None(u, "ReceiveAudioInput") /\ None(u, "receiveAudioInput")
    BY <2>1, <2>2
  <2> QED  BY <2>3 DEF InputInv, None, IsBroken
<1>7. ASSUME TickInv(t, <<>>)  PROVE TickInv(u, <<>>)
  <2>1. \A x \in Onces : ~(IsCanceled(t, x) /\ t[HeadOf(x)].status \in {"idle", "running"})
    BY <1>7 DEF TickInv, Comes
  <2>2. \A x \in Onces : ~(IsCanceled(t, x) /\ Waiting(t, x))
    BY <1>7 DEF TickInv, Comes
  <2>3. \A x \in Onces : /\ x \in Node
                         /\ IsCanceled(u, x) => /\ u[x] = t[x]
                                                /\ u[HeadOf(x)] = t[HeadOf(x)]
    <3> SUFFICES ASSUME NEW x \in Onces
                 PROVE  /\ x \in Node
                        /\ IsCanceled(u, x) => u[x] = t[x] /\ u[HeadOf(x)] = t[HeadOf(x)]
      OBVIOUS
    <3>1. x \in Node
      BY <1>0, TreeFacts DEF Onces
    <3>2. \A n \in Node : u[n] = New => ~IsCanceled(u, n)
      BY NewIs
    <3>3. IsCanceled(u, x) => x \in Early /\ \A n \in Early : u[n] = t[n]
      BY <1>1, <1>2, <3>1, <3>2
    <3>4. x \in Early => x = "open"
      BY EarlyIs DEF Early, Onces, Leaves
    <3>5. HeadOf("open") \in Early
      BY OncesAre DEF Early
    <3> QED  BY <3>1, <3>3, <3>4, <3>5
  <2>4. \A x \in Onces : ~(IsCanceled(u, x) /\ u[HeadOf(x)].status \in {"idle", "running"})
    BY <2>1, <2>3 DEF IsCanceled
  <2>5. \A x \in Onces : ~(IsCanceled(u, x) /\ Waiting(u, x))
    BY <2>2, <2>3 DEF IsCanceled, Waiting
  <2>6. <<>> \in Seq(SUBSET Callbacks) /\ DOMAIN <<>> = {}
    BY <1>7 DEF TickInv
  <2> QED  BY <2>4, <2>5, <2>6 DEF TickInv
<1> QED  BY <1>5, <1>6, <1>7

(* The plan does not change in a behaviour. *)
LEMMA PlanStays ==
  ASSUME plan' = plan
  PROVE  /\ Node' = Node /\ Groups' = Groups /\ Leaves' = Leaves /\ Onces' = Onces
         /\ \A t, q, r : Core(t, q, r)' <=> Core(t, q, r)
<1>1. Node' = Node /\ Groups' = Groups /\ Leaves' = Leaves
  BY DEF Node, Groups, Leaves
<1>2. \A g : (Kind(g))' = Kind(g) /\ (Sub(g))' = Sub(g)
  BY DEF Kind, Sub
<1>3. Onces' = Onces
  BY <1>1, <1>2 DEF Onces
<1>4. \A g : /\ (HeadOf(g))' = HeadOf(g) /\ (Dependencies(g))' = Dependencies(g)
             /\ (RunsFirst(g))' = RunsFirst(g)
  BY <1>2 DEF HeadOf, Dependencies, RunsFirst
<1>5. \A t : State(t)' <=> State(t)
  BY <1>1 DEF State
<1>6. \A t, n : StatusOf(t, n)' <=> StatusOf(t, n)
  BY <1>1, <1>3 DEF StatusOf, None, Waiting, IsKept, IsBroken, IsCanceled
<1>7. \A t, g : GroupInv(t, g)' <=> GroupInv(t, g)
  <2>1. \A t, g : /\ ChildNone(t, g)' <=> ChildNone(t, g)
                  /\ FirstBegun(t, g)' <=> FirstBegun(t, g)
    BY <1>2, <1>4 DEF ChildNone, FirstBegun, None, Waiting, IsKept
  <2>2. \A t, g : /\ InSeries(t, g)' <=> InSeries(t, g)
                  /\ KeptSubs(t, g)' <=> KeptSubs(t, g)
    BY <1>2, <1>4 DEF InSeries, KeptSubs, None, IsKept, IsBroken
  <2>3. \A t, g : /\ ChildPending(t, g)' <=> ChildPending(t, g)
                  /\ DepPending(t, g)' <=> DepPending(t, g)
                  /\ HeadPending(t, g)' <=> HeadPending(t, g)
    BY <1>2, <1>4 DEF ChildPending, DepPending, HeadPending, None, Waiting, IsCanceled
  <2>4. \A t, g : /\ HeadAfter(t, g)' <=> HeadAfter(t, g)
                  /\ HeadNever(t, g)' <=> HeadNever(t, g)
                  /\ HeadFirst(t, g)' <=> HeadFirst(t, g)
                  /\ CancelDown(t, g)' <=> CancelDown(t, g)
    BY <1>2, <1>4
       DEF HeadAfter, HeadNever, HeadFirst, CancelDown, None, Waiting, IsKept, IsBroken, IsCanceled
  <2> QED  BY <2>1, <2>2, <2>3, <2>4 DEF GroupInv
<1>8. \A t : TreeInv(t)' <=> TreeInv(t)
  BY <1>1, <1>5, <1>6, <1>7 DEF TreeInv
<1>9. \A t : InputInv(t)' <=> InputInv(t)
  BY DEF InputInv, IsBroken, Waiting
<1>10. \A t, q : TickInv(t, q)' <=> TickInv(t, q)
  <2>1. \A d, x : Precedes(d, x)' <=> Precedes(d, x)
    BY <1>3, <1>4 DEF Precedes
  <2>2. Callbacks' = Callbacks
    BY <1>3 DEF Callbacks
  <2> QED
    BY <1>3, <1>4, <2>1, <2>2 DEF TickInv, Comes, ComesBy, IsCanceled, Waiting
<1>11. \A t, r : TimerInv(t, r)' <=> TimerInv(t, r)
  BY <1>1, <1>2 DEF TimerInv, Waiting
<1>12. \A t, q, r : Core(t, q, r)' <=> Core(t, q, r)
  BY <1>8, <1>9, <1>10, <1>11 DEF Core
<1> QED  BY <1>1, <1>3, <1>12

(* The subtasks of the groups of a start. *)
LEMMA SubtasksAre ==
  ASSUME plan \in Promised
  PROVE  /\ ToSet(Sub("root")) = {"monitor", "connectionTimeout"}
         /\ ToSet(Sub("connectionTimeout")) = {"Peer"}
         /\ ToSet(Sub("Signaling")) =
              {"open", "ListenForVolumeIndicators", "SendAndReceiveDataMessages",
               "JoinAndReceiveIndex", "ReceiveTURNCredentials", "ReceiveVideoStreamIndex"}
         /\ \/ /\ ToSet(Sub("Peer")) = {"subscribeAck", "SetRemoteDescription"}
               /\ "presenceTimeout" \notin Groups /\ "FinalizeConnection" \notin Groups
            \/ /\ ToSet(Sub("Peer")) = {"subscribeAck", "presenceTimeout"}
               /\ "presenceTimeout" \in Groups /\ "FinalizeConnection" \in Groups
               /\ ToSet(Sub("presenceTimeout")) = {"FinalizeConnection"}
               /\ ToSet(Sub("FinalizeConnection")) =
                    {"WaitForAttendeePresence", "SetRemoteDescription"}
         /\ HeadOf("root") = "monitor" /\ HeadOf("Peer") = "subscribeAck"
         /\ HeadOf("Signaling") = "open"
<1>0. plan \in DOMAIN Plan
  BY StartIs
<1>1. /\ ToSet(Sub("root")) = {"monitor", "connectionTimeout"}
      /\ ToSet(Sub("connectionTimeout")) = {"Peer"}
  <2>1. Sub("root") = <<"monitor", "connectionTimeout">> /\ Sub("connectionTimeout") = <<"Peer">>
    BY StartIs
  <2> QED  BY <2>1, TupleSets
<1>2. ToSet(Sub("Signaling")) =
        {"open", "ListenForVolumeIndicators", "SendAndReceiveDataMessages",
         "JoinAndReceiveIndex", "ReceiveTURNCredentials", "ReceiveVideoStreamIndex"}
  <2>1. Sub("Signaling") =
          <<"open", "ListenForVolumeIndicators", "SendAndReceiveDataMessages",
            "JoinAndReceiveIndex", "ReceiveTURNCredentials", "ReceiveVideoStreamIndex">>
    BY StartIs
  <2> QED  BY <2>1, TupleSets
<1>3. PICK last \in {"presenceTimeout", "SetRemoteDescription"} :
        /\ Sub("Peer") = <<"subscribeAck", last>>
        /\ ("presenceTimeout" \in Groups) <=> last = "presenceTimeout"
  BY StartIs
<1>4. ToSet(Sub("Peer")) = {"subscribeAck", last}
  BY <1>3, TupleSets
<1>5. ASSUME "presenceTimeout" \in Groups
      PROVE  /\ ToSet(Sub("presenceTimeout")) = {"FinalizeConnection"}
             /\ ToSet(Sub("FinalizeConnection")) =
                  {"WaitForAttendeePresence", "SetRemoteDescription"}
  <2>1. /\ Sub("presenceTimeout") = <<"FinalizeConnection">>
        /\ Sub("FinalizeConnection") = <<"WaitForAttendeePresence", "SetRemoteDescription">>
    BY <1>5, StartIs
  <2> QED  BY <2>1, TupleSets
<1>6. ("presenceTimeout" \in Groups) <=> ("FinalizeConnection" \in Groups)
  BY StartIs
<1>7. /\ ToSet(Sub("Peer")) = {"subscribeAck", "SetRemoteDescription"}
         /\ "presenceTimeout" \notin Groups /\ "FinalizeConnection" \notin Groups
      \/ /\ ToSet(Sub("Peer")) = {"subscribeAck", "presenceTimeout"}
         /\ "presenceTimeout" \in Groups /\ "FinalizeConnection" \in Groups
  BY <1>3, <1>4, <1>6
<1>8. /\ HeadOf("root") = "monitor" /\ HeadOf("Peer") = "subscribeAck"
      /\ HeadOf("Signaling") = "open"
  <2>1. {"root", "Peer", "Signaling"} \subseteq Groups
    BY StartIs
  <2>2. /\ Sub("root")[1] = "monitor" /\ Sub("Signaling")[1] = "open"
    BY StartIs
  <2>3. Sub("Peer")[1] = "subscribeAck"
    BY <1>3
  <2> QED  BY <1>0, <2>1, <2>2, <2>3, SubFacts
<1> QED  BY <1>1, <1>2, <1>5, <1>7, <1>8

(* What holds of root, and of the subtasks of the groups of which it holds,   *)
(* holds of every task of a start, but for those left out.                     *)
LEMMA TopDown ==
  ASSUME plan \in Promised, NEW X, NEW E, "root" \in X,
         E \cap Groups \subseteq {"open", "openTimeout"},
         "open" \in E \/ "openTimeout" \in E => Early \subseteq E,
         \A g \in Groups : g \in X /\ g \notin E => ToSet(Sub(g)) \ E \subseteq X
  PROVE  Node \ E \subseteq X
<1>0. plan \in DOMAIN Plan
  BY StartIs
<1>1. {"root", "monitor", "connectionTimeout", "Peer", "subscribeAck", "ice",
       "setLocalDescription", "createSDP", "attachMediaInput", "createPeerConnection",
       "receiveAudioInput", "signaling", "Signaling", "open", "openTimeout"} \subseteq Groups
  BY StartIs
<1>2. \A g \in Groups : g \notin {"open", "openTimeout"} => g \notin E
  OBVIOUS
<1>3. \A x \in Onces : /\ x \in Groups /\ HeadOf(x) \in ToSet(Sub(x))
                       /\ Dependencies(x) \subseteq ToSet(Sub(x))
  BY <1>0, SubFacts DEF Onces
<1>4. \A g \in Groups : \A d \in ToSet(Sub(g)) : g \in X /\ g \notin E /\ d \notin E => d \in X
  OBVIOUS
<1>5. {"monitor", "connectionTimeout", "Peer", "subscribeAck"} \subseteq X
  <2>1. "monitor" \in X /\ "connectionTimeout" \in X
    BY <1>1, <1>2, <1>4, SubtasksAre
  <2>2. "Peer" \in X
    BY <1>1, <1>2, <1>4, <2>1, SubtasksAre
  <2>3. "subscribeAck" \in X
    BY <1>1, <1>2, <1>4, <2>2, SubtasksAre
  <2> QED  BY <2>1, <2>2, <2>3
<1>6. \A x, d \in Onces : x \in X /\ d \in Dependencies(x) /\ x # "open" /\ d # "open" => d \in X
  BY <1>2, <1>3, <1>4, EarlyIs DEF Onces
<1>7. {"ice", "setLocalDescription", "createSDP", "attachMediaInput"} \subseteq X
  <2>1. "ice" \in X
    BY <1>5, <1>6, OncesAre
  <2>2. "setLocalDescription" \in X
    BY <1>6, <2>1, OncesAre
  <2>3. "createSDP" \in X
    BY <1>6, <2>2, OncesAre
  <2>4. "attachMediaInput" \in X
    BY <1>6, <2>3, OncesAre
  <2> QED  BY <2>1, <2>2, <2>3, <2>4
<1>8. {"createPeerConnection", "receiveAudioInput", "signaling", "Signaling"} \subseteq X
  <2>1. "createPeerConnection" \in X /\ "receiveAudioInput" \in X
    BY <1>6, <1>7, OncesAre
  <2>2. "signaling" \in X
    BY <1>6, <2>1, OncesAre
  <2>3. "Signaling" \in ToSet(Sub("signaling"))
    BY <1>3, OncesAre
  <2>4. "Signaling" \in X
    BY <1>1, <1>2, <1>4, <2>2, <2>3
  <2> QED  BY <2>1, <2>2, <2>4
<1>9. "presenceTimeout" \in Groups => "presenceTimeout" \in X /\ "FinalizeConnection" \in X
  <2> SUFFICES ASSUME "presenceTimeout" \in Groups
               PROVE  "presenceTimeout" \in X /\ "FinalizeConnection" \in X
    OBVIOUS
  <2>1. /\ "presenceTimeout" \in ToSet(Sub("Peer")) /\ "FinalizeConnection" \in Groups
        /\ "FinalizeConnection" \in ToSet(Sub("presenceTimeout"))
    BY SubtasksAre
  <2>2. "presenceTimeout" \in X
    BY <1>1, <1>2, <1>4, <1>5, <2>1
  <2> QED  BY <1>2, <1>4, <2>1, <2>2
<1>10. Groups \subseteq {"root", "monitor", "connectionTimeout", "Peer", "subscribeAck", "ice",
             "setLocalDescription", "createSDP", "attachMediaInput", "createPeerConnection",
             "receiveAudioInput", "signaling", "Signaling", "open", "openTimeout",
             "presenceTimeout", "FinalizeConnection"}
       /\ ("FinalizeConnection" \in Groups => "presenceTimeout" \in Groups)
  BY StartIs
<1>11. \A g \in Groups : g \notin {"open", "openTimeout"} => g \in X
  BY <1>5, <1>7, <1>8, <1>9, <1>10
<1>12. "open" \notin E => "open" \in X
  BY <1>1, <1>2, <1>4, <1>11, SubtasksAre
<1>13. "openTimeout" \notin E => "openTimeout" \in X
  <2>1. "open" \in E => "openTimeout" \in E
    BY DEF Early
  <2> QED  BY <1>1, <1>4, <1>12, <2>1, EarlyIs
<1>14. \A g \in Groups : g \notin E => g \in X
  BY <1>11, <1>12, <1>13
<1>15. ASSUME NEW n \in Node \ E, n \notin Groups  PROVE n \in X
  <2>1. \E g \in Groups : n \in ToSet(Sub(g))
    <3>1. Node = Groups \cup UNION {ToSet(Sub(g)) : g \in Groups}
      BY <1>0 DEF Node, Nodes, Groups, Sub
    <3> QED  BY <1>15, <3>1
  <2>2. PICK g \in Groups : n \in ToSet(Sub(g))
    BY <2>1
  <2>3. g \notin E
    <3>1. g \in E => ToSet(Sub(g)) \subseteq Early /\ Early \subseteq E
      <4> SUFFICES ASSUME g \in E  PROVE ToSet(Sub(g)) \subseteq Early /\ Early \subseteq E
        OBVIOUS
      <4>1. g = "open" \/ g = "openTimeout"
        OBVIOUS
      <4>2. ToSet(Sub("open")) \subseteq Early /\ ToSet(Sub("openTimeout")) \subseteq Early
        BY EarlyIs DEF Early
      <4> QED  BY <4>1, <4>2
    <3> QED  BY <1>15, <2>2, <3>1
  <2> QED  BY <1>4, <1>14, <1>15, <2>2, <2>3
<1> QED  BY <1>14, <1>15

-----------------------------------------------------------------------------
(* An operation that is over, and one that goes on. *)

IsSettled(t, n) == IsKept(t, n) \/ IsBroken(t, n)
Alone == {"receiveAudioInput", "open", "signaling"}

(* Every task is the subtask of a group, but for the operation itself. *)
LEMMA ParentIs ==
  ASSUME plan \in DOMAIN Plan, NEW n \in Node, n \notin Groups
  PROVE  \E g \in Groups : n \in ToSet(Sub(g))
<1>1. Node = Groups \cup UNION {ToSet(Sub(g)) : g \in Groups}
  BY DEF Node, Nodes, Groups, Sub
<1> QED  BY <1>1

(* What goes on to wait when the operation does not: the microphone, and what  *)
(* was canceled.                                                               *)
LEMMA WaitsAfter ==
  ASSUME plan \in Promised, NEW t, TreeInv(t), ~Waiting(t, "root")
  PROVE  /\ ~Waiting(t, "monitor") /\ ~Waiting(t, "connectionTimeout") /\ ~Waiting(t, "Peer")
         /\ ~Waiting(t, "subscribeAck") /\ ~Waiting(t, "ice")
         /\ ~Waiting(t, "setLocalDescription") /\ ~Waiting(t, "createSDP")
         /\ ~Waiting(t, "attachMediaInput") /\ ~Waiting(t, "createPeerConnection")
         /\ ~Waiting(t, "signaling")
         /\ Waiting(t, "Signaling") => IsCanceled(t, "Signaling")
         /\ "presenceTimeout" \in Groups =>
              ~Waiting(t, "presenceTimeout") /\ ~Waiting(t, "FinalizeConnection")
<1>0. plan \in DOMAIN Plan
  BY StartIs
<1>1. {"root", "monitor", "connectionTimeout", "Peer", "subscribeAck", "ice",
       "setLocalDescription", "createSDP", "attachMediaInput", "createPeerConnection",
       "receiveAudioInput", "signaling", "Signaling", "open", "openTimeout"} \subseteq Groups
  BY StartIs
<1>2. \A g \in Groups : /\ ChildPending(t, g) /\ DepPending(t, g) /\ HeadPending(t, g)
  BY DEF TreeInv, GroupInv
<1>3. \A g \in Groups : Kind(g) # "once" /\ ~Waiting(t, g) =>
        \A d \in ToSet(Sub(g)) : d # "open" => ~Waiting(t, d)
  BY <1>2 DEF ChildPending
<1>4. \A x \in Onces : ~Waiting(t, x) =>
        \A d \in Dependencies(x) : d # "receiveAudioInput" => ~Waiting(t, d)
  BY <1>2 DEF DepPending, Onces
<1>5. /\ Kind("root") = "serial" /\ Kind("connectionTimeout") = "timeout" /\ Kind("Peer") = "serial"
  BY StartIs
<1>6. ~Waiting(t, "monitor") /\ ~Waiting(t, "connectionTimeout")
  BY <1>1, <1>3, <1>5, SubtasksAre
<1>7. ~Waiting(t, "Peer")
  BY <1>1, <1>3, <1>5, <1>6, SubtasksAre
<1>8. ~Waiting(t, "subscribeAck")
  BY <1>1, <1>3, <1>5, <1>7, SubtasksAre
<1>9. ~Waiting(t, "ice")
  BY <1>4, <1>8, OncesAre
<1>10. ~Waiting(t, "setLocalDescription")
  BY <1>4, <1>9, OncesAre
<1>11. ~Waiting(t, "createSDP")
  BY <1>4, <1>10, OncesAre
<1>12. ~Waiting(t, "attachMediaInput")
  BY <1>4, <1>11, OncesAre
<1>13. ~Waiting(t, "createPeerConnection")
  BY <1>4, <1>12, OncesAre
<1>14. ~Waiting(t, "signaling")
  BY <1>4, <1>13, OncesAre
<1>15. Waiting(t, "Signaling") => IsCanceled(t, "Signaling")
  <2>1. HeadPending(t, "signaling") /\ Kind("signaling") = "once" /\ HeadOf("signaling") = "Signaling"
    BY <1>1, <1>2, StartIs, OncesAre
  <2> QED  BY <1>14, <2>1 DEF HeadPending
<1>16. "presenceTimeout" \in Groups =>
         ~Waiting(t, "presenceTimeout") /\ ~Waiting(t, "FinalizeConnection")
  <2> SUFFICES ASSUME "presenceTimeout" \in Groups
               PROVE  ~Waiting(t, "presenceTimeout") /\ ~Waiting(t, "FinalizeConnection")
    OBVIOUS
  <2>1. Kind("presenceTimeout") = "timeout"
    BY StartIs
  <2>2. "presenceTimeout" \in ToSet(Sub("Peer"))
        /\ "FinalizeConnection" \in ToSet(Sub("presenceTimeout"))
    BY SubtasksAre
  <2>3. ~Waiting(t, "presenceTimeout")
    BY <1>1, <1>3, <1>5, <1>7, <2>2
  <2> QED  BY <1>3, <2>1, <2>2, <2>3
<1> QED
  BY <1>6, <1>7, <1>8, <1>9, <1>10, <1>11, <1>12, <1>13, <1>14, <1>15, <1>16

(* The other operations wait for all they have begun. *)
LEMMA NothingWaits ==
  ASSUME plan \in DOMAIN Plan \ Promised, NEW t, TreeInv(t), ~Waiting(t, "root"), NEW n \in Node
  PROVE  ~Waiting(t, n)
<1> DEFINE X == {d \in Node : ~Waiting(t, d)}
<1>1. "root" \in X
  BY TreeFacts DEF Plain
<1>2. \A g \in Groups : g \in X => ToSet(Sub(g)) \subseteq X
  <2> SUFFICES ASSUME NEW g \in Groups, g \in X, NEW d \in ToSet(Sub(g))  PROVE d \in X
    OBVIOUS
  <2>1. ChildPending(t, g) /\ Kind(g) # "once" /\ d # "open" /\ d \in Node
    <3>1. d \in Node
      BY SubFacts
    <3>2. Onces = {} /\ "open" \notin Node
      BY OthersAre
    <3> QED  BY <3>1, <3>2 DEF TreeInv, GroupInv, Onces
  <2> QED  BY <2>1 DEF ChildPending
<1>3. Node \subseteq X
  <2> HIDE DEF X
  <2> QED  BY <1>1, <1>2, OthersAre
<1> QED  BY <1>3

(* Before the next event, a group that waits waits for a subtask. *)
LEMMA QuietIs ==
  ASSUME plan \in DOMAIN Plan, TreeInv(tasks), Quiet, NEW g \in Groups
  PROVE  /\ Kind(g) = "serial" /\ Waiting(tasks, g) => Waiting(tasks, Awaited(g))
         /\ Kind(g) = "timeout" /\ Waiting(tasks, g) => Waiting(tasks, HeadOf(g))
         /\ Kind(g) = "once" /\ Dependencies(g) = {} /\ ~None(tasks, g) => ~None(tasks, HeadOf(g))
         /\ Kind(g) = "once" /\ Dependencies(g) = {} /\ Waiting(tasks, g) =>
              Waiting(tasks, HeadOf(g))
<1> DEFINE t == tasks
<1>1. ~Goes(g) /\ ~GoesOnce(g) /\ ~EndsWell(g) /\ ~EndsBadly(g)
  BY DEF Quiet
<1>2. \A d \in ToSet(Sub(g)) : d \in Node /\ (Settled(d) <=> IsKept(t, d) \/ IsBroken(t, d))
                               /\ (Kept(d) <=> IsKept(t, d)) /\ (Broken(d) <=> IsBroken(t, d))
                               /\ (None(t, d) \/ Waiting(t, d) \/ IsKept(t, d) \/ IsBroken(t, d))
  BY SubFacts, NamesAre, PromiseIs DEF TreeInv
<1>3. Pending(g) <=> Waiting(t, g)
  BY NamesAre
<1>4. HeadOf(g) \in ToSet(Sub(g)) /\ Dependencies(g) = ToSet(Sub(g)) \ {HeadOf(g)}
      /\ HeadOf(g) = Head(Sub(g))
  BY SubFacts DEF HeadOf
<1>5. ASSUME Kind(g) = "serial", Waiting(t, g)  PROVE Waiting(t, Awaited(g))
  <2>1. /\ Position(g) \in 1..Len(Sub(g)) /\ Awaited(g) \in ToSet(Sub(g))
        /\ ~None(t, Awaited(g))
    BY <1>5, AwaitedIs
  <2>2. Position(g) = Len(Sub(g)) \/ Position(g) < Len(Sub(g))
    <3>1. Len(Sub(g)) \in Nat
      BY SubFacts
    <3> QED  BY <2>1, <3>1
  <2>3. ~IsBroken(t, Awaited(g))
    BY <1>1, <1>2, <1>3, <1>5, <2>1 DEF EndsBadly
  <2>4. ~IsKept(t, Awaited(g))
    <3> SUFFICES ASSUME IsKept(t, Awaited(g))  PROVE FALSE
      OBVIOUS
    <3>1. Kept(Awaited(g))
      BY <1>2, <2>1
    <3>2. CASE Position(g) = Len(Sub(g))
      BY <1>1, <1>3, <1>5, <3>1, <3>2 DEF EndsWell
    <3>3. CASE Position(g) < Len(Sub(g)) /\ tasks[g].status = "canceled"
      BY <1>1, <1>3, <1>5, <3>1, <3>3 DEF EndsBadly
    <3>4. CASE Position(g) < Len(Sub(g)) /\ tasks[g].status # "canceled"
      BY <1>1, <1>3, <1>5, <3>1, <3>4 DEF Goes
    <3> QED  BY <2>2, <3>2, <3>3, <3>4
  <2> QED  BY <1>2, <2>1, <2>3, <2>4
<1>6. ASSUME Kind(g) = "timeout", Waiting(t, g)  PROVE Waiting(t, HeadOf(g))
  <2>1. ToSet(Sub(g)) = {HeadOf(g)}
    BY <1>6, SubFacts
  <2>2. ~None(t, HeadOf(g))
    <3>1. FirstBegun(t, g)
      BY DEF TreeInv, GroupInv
    <3>2. RunsFirst(g) = {HeadOf(g)}
      BY <1>6, <2>1, RunsFirstIs
    <3> QED  BY <1>6, <3>1, <3>2 DEF FirstBegun
  <2>3. ~Kept(HeadOf(g))
    BY <1>1, <1>3, <1>6, <2>1 DEF EndsWell
  <2>4. ~Broken(HeadOf(g))
    <3> SUFFICES ASSUME Broken(HeadOf(g))  PROVE FALSE
      OBVIOUS
    <3>1. Settled(HeadOf(g))
      BY <1>2, <2>1
    <3> QED  BY <1>1, <1>3, <1>6, <2>1, <3>1 DEF EndsBadly
  <2> QED  BY <1>2, <2>1, <2>2, <2>3, <2>4
<1>7. ASSUME Kind(g) = "once", Dependencies(g) = {}, ~None(t, g)  PROVE ~None(t, HeadOf(g))
  BY <1>1, <1>4, <1>7 DEF GoesOnce, None
<1>8. ASSUME Kind(g) = "once", Dependencies(g) = {}, Waiting(t, g)  PROVE Waiting(t, HeadOf(g))
  <2>1. ~None(t, g)
    BY <1>8 DEF Waiting, None
  <2>2. ~None(t, HeadOf(g))
    BY <1>7, <1>8, <2>1
  <2>3. ~Kept(HeadOf(g))
    BY <1>1, <1>3, <1>4, <1>8 DEF EndsWell
  <2>4. ~Broken(HeadOf(g))
    BY <1>1, <1>3, <1>4, <1>8 DEF EndsBadly
  <2> QED  BY <1>2, <1>4, <2>2, <2>3, <2>4
<1> QED  BY <1>5, <1>6, <1>7, <1>8

(* What a task of the signaling group does: it is done when it returns, it is *)
(* rejected when it is canceled, or it is the early connection.                *)
LEMMA SignalingIs ==
  ASSUME plan \in Promised, NEW d \in ToSet(Sub("Signaling")), d # "open"
  PROVE  d \in Leaves /\ (~Task[d].waits \/ Task[d].cancel = "rejects")
<1>0. plan \in DOMAIN Plan /\ "Signaling" \in Groups
  BY StartIs
<1>1. d \in {"ListenForVolumeIndicators", "SendAndReceiveDataMessages",
             "JoinAndReceiveIndex", "ReceiveTURNCredentials", "ReceiveVideoStreamIndex"}
  BY SubtasksAre
<1>2. d \in Leaves
  <2>1. d \in Node
    BY <1>0, SubFacts
  <2>2. d \notin Groups
    BY <1>1, StartIs
  <2> QED  BY <2>1, <2>2 DEF Leaves
<1>3. ~Task[d].waits \/ Task[d].cancel = "rejects"
  BY <1>1 DEF Task, ListenForVolumeIndicators, SendAndReceiveDataMessages, JoinAndReceiveIndex,
              ReceiveTURNCredentials, ReceiveVideoStreamIndex, Immediate, Waits
<1> QED  BY <1>2, <1>3

(* An early connection that waits and is not canceled: so does its timeout. *)
LEMMA OpenWaits ==
  ASSUME plan \in Promised, TreeInv(tasks), Quiet
  PROVE  /\ Waiting(tasks, "open") => Waiting(tasks, "openTimeout")
         /\ Waiting(tasks, "openTimeout") =>
              /\ Waiting(tasks, "OpenSignalingConnection")
              /\ ~IsCanceled(tasks, "OpenSignalingConnection")
              /\ ~IsCanceled(tasks, "openTimeout")
              /\ Waiting(tasks, "open")
<1> DEFINE t == tasks
<1>0. plan \in DOMAIN Plan
  BY StartIs
<1>1. /\ "open" \in Groups /\ Kind("open") = "once" /\ Dependencies("open") = {}
      /\ HeadOf("open") = "openTimeout" /\ "openTimeout" \in Groups
      /\ Kind("openTimeout") = "timeout" /\ HeadOf("openTimeout") = "OpenSignalingConnection"
      /\ "OpenSignalingConnection" \in ToSet(Sub("openTimeout"))
      /\ "OpenSignalingConnection" \in Leaves
  <2>1. "openTimeout" \in Groups /\ Sub("openTimeout")[1] = "OpenSignalingConnection"
    BY StartIs
  <2>2. HeadOf("openTimeout") = "OpenSignalingConnection"
    BY <1>0, <2>1, SubFacts
  <2> QED  BY <2>2, EarlyIs, OncesAre
<1>2. Waiting(t, "open") => Waiting(t, "openTimeout")
  BY <1>0, <1>1, QuietIs
<1>3. ASSUME Waiting(t, "openTimeout")
      PROVE  /\ Waiting(t, "OpenSignalingConnection")
             /\ ~IsCanceled(t, "OpenSignalingConnection")
             /\ ~IsCanceled(t, "openTimeout")
             /\ Waiting(t, "open")
  <2>1. Waiting(t, "OpenSignalingConnection")
    BY <1>0, <1>1, <1>3, QuietIs
  <2>2. ~IsCanceled(t, "OpenSignalingConnection")
    <3>1. StatusOf(t, "OpenSignalingConnection")
      BY <1>1 DEF TreeInv, Leaves
    <3> QED  BY <1>1, <2>1, <3>1, EarlyIs DEF StatusOf
  <2>3. ~IsCanceled(t, "openTimeout")
    <3>1. CancelDown(t, "openTimeout")
      BY <1>1 DEF TreeInv, GroupInv
    <3> QED  BY <1>1, <1>3, <2>1, <2>2, <3>1 DEF CancelDown
  <2>4. Waiting(t, "open")
    <3>1. HeadPending(t, "open")
      BY <1>1 DEF TreeInv, GroupInv
    <3> QED  BY <1>1, <1>3, <2>3, <3>1 DEF HeadPending
  <2> QED  BY <2>1, <2>2, <2>3, <2>4
<1> QED  BY <1>2, <1>3

(* When the operation is over and the callbacks have run, only the devices and *)
(* the senders are left.                                                        *)
LEMMA LeftBehind ==
  ASSUME plan \in Promised, TreeInv(tasks), TickInv(tasks, <<>>), Quiet, ~Waiting(tasks, "root"),
         ~None(tasks, "Signaling")
  PROVE  /\ ~Waiting(tasks, "Signaling") /\ ~Waiting(tasks, "open")
         /\ ~Waiting(tasks, "openTimeout") /\ ~Waiting(tasks, "OpenSignalingConnection")
         /\ \A n \in Leaves : Waiting(tasks, n) => n \in Deaf
<1> DEFINE t == tasks
<1>0. plan \in DOMAIN Plan
  BY StartIs
<1>1. ~Waiting(t, "Signaling")
  <2> SUFFICES ASSUME Waiting(t, "Signaling")  PROVE FALSE
    OBVIOUS
  <2>1. "Signaling" \in Groups /\ Kind("Signaling") = "serial" /\ IsCanceled(t, "Signaling")
    BY StartIs, WaitsAfter
  <2> DEFINE d == Awaited("Signaling")
  <2>2. Waiting(t, d) /\ d \in ToSet(Sub("Signaling"))
    BY <1>0, <2>1, QuietIs, AwaitedIs
  <2>3. IsCanceled(t, d)
    <3>1. CancelDown(t, "Signaling")
      BY <2>1 DEF TreeInv, GroupInv
    <3> QED  BY <2>1, <2>2, <3>1 DEF CancelDown
  <2>4. CASE d = "open"
    <3>1. "open" \in Onces
      BY EarlyIs
    <3>2. Comes(<<>>, "reject", "open")
      BY <2>2, <2>3, <2>4, <3>1 DEF TickInv
    <3> QED  BY <3>2 DEF Comes
  <2>5. CASE d # "open"
    <3>1. d \in Leaves /\ (~Task[d].waits \/ Task[d].cancel = "rejects")
      BY <2>2, <2>5, SignalingIs
    <3>2. StatusOf(t, d)
      BY <3>1 DEF TreeInv, Leaves
    <3> QED  BY <2>2, <2>3, <3>1, <3>2 DEF StatusOf
  <2> QED  BY <2>4, <2>5
<1>2. ~Waiting(t, "open")
  <2>1. "Signaling" \in Groups /\ Kind("Signaling") = "serial" /\ "open" \in ToSet(Sub("Signaling"))
    BY StartIs, SubtasksAre
  <2>2. ChildPending(t, "Signaling")
    BY <2>1 DEF TreeInv, GroupInv
  <2> QED  BY <1>1, <2>1, <2>2 DEF ChildPending
<1>3. ~Waiting(t, "openTimeout")
  BY <1>2, OpenWaits
<1>4. ~Waiting(t, "OpenSignalingConnection")
  <2>1. "openTimeout" \in Groups /\ Kind("openTimeout") = "timeout"
        /\ "OpenSignalingConnection" \in ToSet(Sub("openTimeout"))
    BY EarlyIs
  <2>2. ChildPending(t, "openTimeout")
    BY <2>1 DEF TreeInv, GroupInv
  <2> QED  BY <1>3, <2>1, <2>2 DEF ChildPending
<1>5. \A g \in Groups : g # "receiveAudioInput" => ~Waiting(t, g)
  <2>1. Groups \subseteq {"root", "monitor", "connectionTimeout", "Peer", "subscribeAck", "ice",
             "setLocalDescription", "createSDP", "attachMediaInput", "createPeerConnection",
             "receiveAudioInput", "signaling", "Signaling", "open", "openTimeout",
             "presenceTimeout", "FinalizeConnection"}
        /\ ("FinalizeConnection" \in Groups => "presenceTimeout" \in Groups)
    BY StartIs
  <2> QED  BY <1>1, <1>2, <1>3, <2>1, WaitsAfter
<1>6. ASSUME NEW n \in Leaves, Waiting(t, n)  PROVE n \in Deaf
  <2>1. n \in Node /\ n \notin Groups /\ n \in DOMAIN Task /\ StatusOf(t, n)
    BY <1>0, TreeFacts DEF Leaves, TreeInv
  <2>2. Task[n].waits
    BY <1>6, <2>1 DEF StatusOf
  <2>3. PICK g \in Groups : n \in ToSet(Sub(g))
    BY <1>0, <2>1, ParentIs
  <2>4. g \in Onces
    <3>1. ChildPending(t, g)
      BY DEF TreeInv, GroupInv
    <3>2. n # "open"
      BY <2>1, EarlyIs
    <3> QED  BY <1>5, <1>6, <2>3, <3>1, <3>2, InputIs DEF ChildPending, Onces
  <2>5. n = HeadOf(g)
    <3>1. n \notin Onces /\ Kind(g) = "once"
      BY <2>1, <2>4 DEF Onces
    <3> QED  BY <1>0, <2>3, <3>1, SubFacts
  <2>6. CASE g = "receiveAudioInput"
    <3>1. n = "ReceiveAudioInput"
      BY <2>5, <2>6, OncesAre
    <3> QED  BY <2>1, <2>2, <3>1, InputIs DEF Deaf
  <2>7. CASE g # "receiveAudioInput"
    <3>1. HeadPending(t, g) /\ Kind(g) = "once"
      BY <2>4 DEF TreeInv, GroupInv, Onces
    <3>2. IsCanceled(t, n)
      BY <1>5, <1>6, <2>3, <2>5, <2>7, <3>1 DEF HeadPending
    <3>3. Task[n].cancel = "ignored"
      BY <1>6, <2>1, <3>2 DEF StatusOf
    <3> QED  BY <2>1, <2>2, <3>3 DEF Deaf
  <2> QED  BY <2>6, <2>7
<1> QED  BY <1>1, <1>2, <1>3, <1>4, <1>6

-----------------------------------------------------------------------------
(* The inductive invariant: the tasks, the callbacks and the timers, and how   *)
(* the connection and what the controller holds go with them.                  *)
Scalars ==
  /\ plan \in Operations /\ line \in {"none", "opening", "open", "closing"}
  /\ signalingTask \in BOOLEAN /\ observed \in BOOLEAN /\ prestarted \in {"none", "pending"}
  /\ attempts \in 0..MaxAttempts /\ stops \in 0..MaxStops

(* Without promises there is no early connection and no callback. *)
Local ==
  plan \notin Promised => ~signalingTask /\ ~observed /\ prestarted = "none" /\ ticks = <<>>

(* Before an operation starts only the early connection has begun. *)
BeforeStart ==
  None(tasks, "root") =>
    /\ \A n \in Node : (plan \in Promised => n \notin Early) => tasks[n] = New
    /\ ticks = <<>> /\ attempts < MaxAttempts

(* The early connection the controller holds: it comes, or is watched. *)
Held ==
  plan \in Promised /\ None(tasks, "root") /\ signalingTask =>
    /\ ~None(tasks, "open") /\ ~IsCanceled(tasks, "open") /\ ~IsCanceled(tasks, "openTimeout")
    /\ prestarted = "pending" \/ (IsKept(tasks, "open") /\ observed)

Watched ==
  observed =>
    /\ plan \in Promised /\ IsKept(tasks, "open") /\ prestarted = "none"
    /\ line \in {"open", "closing"}
    /\ None(tasks, "root") => signalingTask
    /\ ~None(tasks, "root") => line = "open"

Prestarted ==
  prestarted = "pending" =>
    plan \in Promised /\ ~None(tasks, "open") /\ (None(tasks, "root") => signalingTask)

(* Nobody forgets the early connection while its timer may run. *)
TimerHeld ==
  plan \in Promised /\ (~None(tasks, "open") \/ ~None(tasks, "root"))
    /\ ~IsSettled(tasks, "openTimeout") =>
      signalingTask \/ IsSettled(tasks, "root") \/ IsCanceled(tasks, "openTimeout")

(* The connection that has just been opened is there. *)
JustOpened ==
  plan \in Promised /\ IsKept(tasks, "OpenSignalingConnection")
    /\ (~IsSettled(tasks, "open") \/ prestarted = "pending") => line = "open"

HeldLine ==
  plan \in Promised /\ None(tasks, "root") /\ signalingTask /\ IsKept(tasks, "open") =>
    line \in {"open", "closing"}

(* A start that has yet to join. *)
ToJoin == None(tasks, "JoinAndReceiveIndex") /\ ~IsSettled(tasks, "Signaling")
JoinLine ==
  plan \in Promised /\ Waiting(tasks, "root") /\ IsKept(tasks, "open") /\ ToJoin =>
    line \in {"open", "closing"}
OwnLine ==
  plan \notin Promised /\ "JoinAndReceiveIndex" \in Node /\ Waiting(tasks, "Signaling")
    /\ IsKept(tasks, "OpenSignalingConnection") /\ None(tasks, "JoinAndReceiveIndex") =>
      line = "open"

Dropped == IsSettled(tasks, "root") => ~signalingTask

(* Nothing has failed before the tasks that nothing holds back have begun. *)
Ahead == \A x \in Alone : ~None(tasks, HeadOf(x))
Cascade ==
  plan \in Promised /\ Waiting(tasks, "root") /\ ~Ahead =>
    \A y \in Node : ~IsBroken(tasks, y)
                      /\ (IsCanceled(tasks, y) => y \in Leaves /\ ~None(tasks, y))
AllBegun == plan \in Promised /\ IsSettled(tasks, "root") => Ahead

CoreInv == Core(tasks, ticks, timers)
Connection ==
  /\ Local /\ BeforeStart /\ Held /\ Watched /\ Prestarted /\ TimerHeld /\ JustOpened
  /\ HeldLine /\ JoinLine /\ OwnLine /\ Dropped /\ Cascade /\ AllBegun
IInv == Scalars /\ CoreInv /\ Connection

-----------------------------------------------------------------------------
(* What is so when no promise is left to follow up. *)

(* A connection that was opened is known to be. *)
LEMMA OpenKnown ==
  ASSUME plan \in Promised, TreeInv(tasks), Quiet, IsKept(tasks, "OpenSignalingConnection")
  PROVE  IsSettled(tasks, "open") /\ prestarted # "pending"
<1>0. plan \in DOMAIN Plan
  BY StartIs
<1>1. /\ "open" \in Groups /\ "openTimeout" \in Groups /\ "open" \in Node /\ "openTimeout" \in Node
      /\ "OpenSignalingConnection" \in Node
      /\ "openTimeout" \in ToSet(Sub("open"))
      /\ "OpenSignalingConnection" \in ToSet(Sub("openTimeout"))
  BY EarlyIs DEF Early
<1>2. State(tasks) /\ ChildNone(tasks, "open") /\ ChildNone(tasks, "openTimeout")
  BY <1>1 DEF TreeInv, GroupInv
<1>3. ~None(tasks, "OpenSignalingConnection") /\ ~Waiting(tasks, "OpenSignalingConnection")
  BY <1>1, <1>2, PromiseIs
<1>4. ~None(tasks, "openTimeout")
  BY <1>1, <1>2, <1>3 DEF ChildNone
<1>5. ~None(tasks, "open")
  BY <1>1, <1>2, <1>4 DEF ChildNone
<1>6. ~Waiting(tasks, "openTimeout")
  BY <1>3, OpenWaits
<1>7. ~Waiting(tasks, "open")
  BY <1>6, OpenWaits
<1>8. IsSettled(tasks, "open")
  BY <1>1, <1>2, <1>5, <1>7, PromiseIs DEF IsSettled
<1> QED  BY <1>8, NamesAre DEF Quiet, PrestartSettled, IsSettled

(* A start in which nothing has failed has begun what nothing holds back. *)
LEMMA QuietAhead ==
  ASSUME plan \in Promised, TreeInv(tasks), Quiet, Waiting(tasks, "root"), Cascade
  PROVE  Ahead
<1> DEFINE t == tasks
<1>0. plan \in DOMAIN Plan /\ Groups \subseteq Node
  BY StartIs, TreeFacts
<1>1. {"root", "monitor", "connectionTimeout", "Peer", "subscribeAck", "ice",
       "setLocalDescription", "createSDP", "attachMediaInput", "createPeerConnection",
       "receiveAudioInput", "signaling", "Signaling", "open", "openTimeout"} \subseteq Groups
  BY StartIs
<1> SUFFICES ASSUME ~Ahead  PROVE FALSE
  OBVIOUS
<1>2. \A y \in Node : ~IsBroken(t, y)
  BY DEF Cascade
<1>3. State(t) /\ (\A n \in Node : StatusOf(t, n)) /\ \A g \in Groups : FirstBegun(t, g)
  BY DEF TreeInv, GroupInv
<1>4. \A g \in Groups : Kind(g) \in {"serial", "each"} /\ Waiting(t, g) => ~None(t, HeadOf(g))
  BY <1>0, <1>3, RunsFirstIs DEF FirstBegun
<1>5. \A x \in Onces : ~None(t, x) => \A d \in Dependencies(x) : ~None(t, d)
  BY <1>3 DEF FirstBegun, Onces
<1>6. \A x \in Onces : Dependencies(x) = {} /\ ~None(t, x) => ~None(t, HeadOf(x))
  BY <1>0, QuietIs DEF Onces
<1>7. Kind("root") = "serial" /\ Kind("connectionTimeout") = "timeout" /\ Kind("Peer") = "serial"
      /\ Kind("Signaling") = "serial" /\ Kind("monitor") = "once"
  BY StartIs
<1>8. "Monitor" \in Leaves /\ Task["Monitor"].waits = FALSE
  <2>1. "Monitor" \in Node
    BY <1>0, <1>1, OncesAre, SubFacts
  <2>2. "Monitor" \notin Groups
    BY StartIs
  <2> QED  BY <2>1, <2>2 DEF Leaves, Task, Monitor, Immediate
<1>9. ~None(t, "monitor") /\ ~Waiting(t, "monitor")
  <2>1. ~None(t, "monitor")
    BY <1>1, <1>4, <1>7, SubtasksAre
  <2>2. ~Waiting(t, "Monitor")
    BY <1>3, <1>8 DEF StatusOf, Leaves
  <2> QED  BY <1>0, <1>1, <1>7, <2>1, <2>2, QuietIs, OncesAre
<1>10. Waiting(t, "connectionTimeout")
  BY <1>0, <1>1, <1>7, <1>9, QuietIs, AwaitedIs, SubtasksAre
<1>11. Waiting(t, "Peer")
  <2>1. HeadOf("connectionTimeout") = "Peer"
    BY <1>0, <1>1, <1>7, SubFacts, SubtasksAre
  <2> QED  BY <1>0, <1>1, <1>7, <1>10, <2>1, QuietIs
<1>12. ~None(t, "subscribeAck")
  BY <1>1, <1>4, <1>7, <1>11, SubtasksAre
<1>13. ~None(t, "ice")
  BY <1>5, <1>12, OncesAre
<1>14. ~None(t, "setLocalDescription")
  BY <1>5, <1>13, OncesAre
<1>15. ~None(t, "createSDP")
  BY <1>5, <1>14, OncesAre
<1>16. ~None(t, "attachMediaInput")
  BY <1>5, <1>15, OncesAre
<1>17. ~None(t, "createPeerConnection") /\ ~None(t, "receiveAudioInput")
  BY <1>5, <1>16, OncesAre
<1>18. ~None(t, "signaling")
  BY <1>5, <1>17, OncesAre
<1>19. ~None(t, HeadOf("receiveAudioInput")) /\ ~None(t, "Signaling")
  BY <1>6, <1>17, <1>18, OncesAre
<1>20. ~None(t, "open")
  <2>1. Waiting(t, "Signaling") \/ IsKept(t, "Signaling")
    BY <1>0, <1>1, <1>2, <1>3, <1>19, PromiseIs
  <2> QED  BY <1>0, <1>1, <1>3, <1>7, <2>1, RunsFirstIs, SubtasksAre DEF FirstBegun
<1>21. ~None(t, HeadOf("open"))
  BY <1>6, <1>20, OncesAre
<1> QED  BY <1>19, <1>21, OncesAre DEF Ahead, Alone

(* The connection is there and the tasks that follow wait for nothing. *)
LEMMA JoinBegun ==
  ASSUME plan \in Promised, TreeInv(tasks), Quiet, Waiting(tasks, "Signaling"),
         IsKept(tasks, "open")
  PROVE  ~None(tasks, "JoinAndReceiveIndex")
<1> DEFINE t == tasks  d == Awaited("Signaling")  p == Position("Signaling")
<1>0. plan \in DOMAIN Plan /\ Groups \subseteq Node
  BY StartIs, TreeFacts
<1>1. "Signaling" \in Groups /\ Kind("Signaling") = "serial"
  BY StartIs
<1>2. /\ p \in 1..Len(Sub("Signaling")) /\ d = Sub("Signaling")[p] /\ d \in ToSet(Sub("Signaling"))
      /\ \A i \in DOMAIN Sub("Signaling") : i > p => None(t, Sub("Signaling")[i])
  BY <1>0, <1>1, AwaitedIs
<1>3. Waiting(t, d)
  BY <1>0, <1>1, QuietIs
<1>4. State(t) /\ \A n \in Node : StatusOf(t, n)
  BY DEF TreeInv
<1>5. d # "open"
  <2>1. "open" \in Node
    BY EarlyIs DEF Early
  <2> QED  BY <1>3, <1>4, <2>1, PromiseIs
<1>6. d \notin {"ListenForVolumeIndicators", "SendAndReceiveDataMessages"}
  <2>1. d \in Leaves
    BY <1>2, <1>5, SignalingIs
  <2>2. Task["ListenForVolumeIndicators"].waits = FALSE
        /\ Task["SendAndReceiveDataMessages"].waits = FALSE
    BY DEF Task, ListenForVolumeIndicators, SendAndReceiveDataMessages, Immediate
  <2> QED  BY <1>3, <1>4, <2>1, <2>2 DEF StatusOf, Leaves
<1>7. /\ DOMAIN Sub("Signaling") = 1..6
      /\ Sub("Signaling")[1] = "open" /\ Sub("Signaling")[2] = "ListenForVolumeIndicators"
      /\ Sub("Signaling")[3] = "SendAndReceiveDataMessages"
      /\ Sub("Signaling")[4] = "JoinAndReceiveIndex" /\ Len(Sub("Signaling")) = 6
  BY StartIs
<1>8. p \in 1..6 /\ p # 1 /\ p # 2 /\ p # 3
  BY <1>2, <1>5, <1>6, <1>7
<1>9. CASE p = 4
  <2>1. d = "JoinAndReceiveIndex" /\ d \in Node
    BY <1>0, <1>1, <1>2, <1>7, <1>9, SubFacts
  <2> QED  BY <1>3, <1>4, <2>1, PromiseIs
<1>10. CASE p > 4
  <2>1. InSeries(t, "Signaling")
    BY <1>1 DEF TreeInv, GroupInv
  <2>2. ~None(t, d) /\ "JoinAndReceiveIndex" \in Node
    <3>1. d \in Node /\ "JoinAndReceiveIndex" \in Node
      BY <1>0, <1>1, <1>2, SubFacts, SubtasksAre
    <3> QED  BY <1>3, <1>4, <3>1, PromiseIs
  <2>3. IsKept(t, Sub("Signaling")[4])
    <3>1. 4 \in DOMAIN Sub("Signaling") /\ p \in DOMAIN Sub("Signaling") /\ 4 < p
      BY <1>7, <1>8, <1>10
    <3> QED  BY <1>1, <1>2, <2>1, <2>2, <3>1 DEF InSeries
  <2> QED  BY <1>4, <1>7, <2>2, <2>3, PromiseIs
<1> QED  BY <1>8, <1>9, <1>10

(* The same of a session that opens its own connection. *)
LEMMA OwnJoinBegun ==
  ASSUME plan \in DOMAIN Plan \ Promised, TreeInv(tasks), Quiet, "JoinAndReceiveIndex" \in Node,
         Waiting(tasks, "Signaling"), IsKept(tasks, "OpenSignalingConnection")
  PROVE  ~None(tasks, "JoinAndReceiveIndex")
<1> DEFINE t == tasks  s == Sub("Signaling")  d == Awaited("Signaling")  p == Position("Signaling")
<1>0. Groups \subseteq Node
  BY TreeFacts
<1>1. "Signaling" \in Groups /\ Kind("Signaling") = "serial" /\ s[1] = "OpenSignalingConnection"
  BY OthersAre
<1>2. PICK k \in DOMAIN s : /\ k > 1 /\ s[k] = "JoinAndReceiveIndex"
                            /\ \A i \in 2..(k - 1) :
                                 s[i] \in {"ListenForVolumeIndicators", "SendAndReceiveDataMessages"}
  BY OthersAre
<1>3. p \in 1..Len(s) /\ d = s[p] /\ d \in ToSet(s) /\ DOMAIN s = 1..Len(s) /\ Len(s) \in Nat
      /\ ToSet(s) \subseteq Node
  BY <1>1, AwaitedIs, SubFacts
<1>4. Waiting(t, d)
  BY <1>1, QuietIs
<1>5. State(t) /\ \A n \in Node : StatusOf(t, n)
  BY DEF TreeInv
<1>6. d # "OpenSignalingConnection"
  BY <1>3, <1>4, <1>5, PromiseIs
<1>7. d \notin {"ListenForVolumeIndicators", "SendAndReceiveDataMessages"}
  <2> SUFFICES ASSUME d \in {"ListenForVolumeIndicators", "SendAndReceiveDataMessages"}
               PROVE  FALSE
    OBVIOUS
  <2>1. Task[d].waits = FALSE /\ d \in DOMAIN Task
    BY DEF Task, ListenForVolumeIndicators, SendAndReceiveDataMessages, Immediate
  <2>2. d \in Leaves
    BY <1>3, <2>1, TreeFacts DEF Leaves
  <2> QED  BY <1>4, <1>5, <2>1, <2>2 DEF StatusOf, Leaves
<1>8. p \in Nat /\ k \in Nat /\ p # 1 /\ ~(p \in 2..(k - 1))
  BY <1>1, <1>2, <1>3, <1>6, <1>7
<1>9. p >= k
  BY <1>2, <1>3, <1>8
<1>10. CASE p = k
  BY <1>2, <1>3, <1>4, <1>5, <1>10, PromiseIs
<1>11. CASE p > k
  <2>1. InSeries(t, "Signaling")
    BY <1>1 DEF TreeInv, GroupInv
  <2>2. ~None(t, d)
    BY <1>3, <1>4, <1>5, PromiseIs
  <2>3. IsKept(t, s[k])
    BY <1>1, <1>2, <1>3, <1>11, <2>1, <2>2 DEF InSeries
  <2> QED  BY <1>2, <1>5, <2>3, PromiseIs
<1> QED  BY <1>8, <1>9, <1>10, <1>11
-----------------------------------------------------------------------------
(* What run() and cancel() of an early task, or of one that is no group, reach. *)
LEMMA Below ==
  ASSUME plan \in Promised, NEW R, NEW n, NEW E, n \in E, "root" \notin E,
         E \cap Groups \subseteq {"open", "openTimeout"},
         "open" \in E \/ "openTimeout" \in E => Early \subseteq E,
         R \subseteq Node,
         \A d \in R : d = n \/ \E g \in Groups \cap R : d \in ToSet(Sub(g))
  PROVE  R \subseteq E
<1> DEFINE X == {d \in Node : d \notin R}
<1>0. plan \in DOMAIN Plan
  BY StartIs
<1>1. "root" \in X
  BY <1>0, TreeFacts DEF Plain
<1>2. ASSUME NEW g \in Groups, g \in X, NEW d \in ToSet(Sub(g)) \ E  PROVE d \in X
  <2>1. d \in Node /\ d # n
    BY <1>0, SubFacts
  <2> SUFFICES ASSUME d \in R  PROVE FALSE
    BY <2>1
  <2>2. PICK h \in Groups \cap R : d \in ToSet(Sub(h))
    BY <2>1
  <2>3. h = g
    BY <1>0, <2>1, <2>2, TreeFacts
  <2> QED  BY <1>2, <2>2, <2>3
<1>3. \A g \in Groups : g \in X /\ g \notin E => ToSet(Sub(g)) \ E \subseteq X
  BY <1>2
<1>4. Node \ E \subseteq X
  <2> HIDE DEF X
  <2> QED  BY <1>1, <1>3, TopDown
<1> QED  BY <1>4

(* run() of the early connection reaches no task but its own. *)
LEMMA EarlyRan ==
  ASSUME plan \in Promised, NEW t, NEW u, NEW n \in Early, NEW R, Ran(t, u, n, R)
  PROVE  R \subseteq Early
<1>0. plan \in DOMAIN Plan
  BY StartIs
<1>1. Early \cap Groups \subseteq {"open", "openTimeout"} /\ "root" \notin Early
  BY EarlyIs DEF Early, Leaves
<1>2. \A d \in R : d = n \/ \E g \in Groups \cap R : d \in ToSet(Sub(g))
  BY <1>0, RunsFirstIs DEF Ran
<1> QED  BY <1>1, <1>2, Below DEF Ran

(* run() of a task that is no group reaches no other. *)
LEMMA LeafRan ==
  ASSUME plan \in Promised, NEW t, NEW u, NEW n \in Leaves, NEW R, Ran(t, u, n, R)
  PROVE  R = {n}
<1>0. plan \in DOMAIN Plan
  BY StartIs
<1>1. "root" \notin {n} /\ {n} \cap Groups = {} /\ n # "open" /\ n # "openTimeout"
  BY <1>0, EarlyIs, TreeFacts DEF Leaves, Plain
<1>2. \A d \in R : d = n \/ \E g \in Groups \cap R : d \in ToSet(Sub(g))
  BY <1>0, RunsFirstIs DEF Ran
<1>3. R \subseteq {n}
  <2> DEFINE E == {n}
  <2>1. n \in E /\ "root" \notin E /\ E \cap Groups \subseteq {"open", "openTimeout"}
        /\ ("open" \in E \/ "openTimeout" \in E => Early \subseteq E)
    BY <1>1
  <2> HIDE DEF E
  <2>2. R \subseteq E
    BY <1>2, <2>1, Below DEF Ran
  <2> QED  BY <2>2 DEF E
<1> QED  BY <1>3 DEF Ran

(* cancel() of the task that opens the connection reaches no other. *)
LEMMA EarlyCanceled ==
  ASSUME plan \in Promised, NEW t, NEW u, NEW C, Cancels(t, u, "OpenSignalingConnection", C)
  PROVE  C \subseteq {"OpenSignalingConnection"}
<1>0. plan \in DOMAIN Plan
  BY StartIs
<1> DEFINE E == {"OpenSignalingConnection"}
<1>1. "root" \notin E /\ E \cap Groups = {} /\ "open" \notin E /\ "openTimeout" \notin E
      /\ "OpenSignalingConnection" \in E
  BY <1>0, EarlyIs, TreeFacts DEF Leaves, Plain
<1>2. \A d \in C : d = "OpenSignalingConnection" \/ \E g \in Groups \cap C : d \in ToSet(Sub(g))
  BY DEF Cancels
<1>3. C \subseteq Node
  BY DEF Cancels
<1> HIDE DEF E
<1>4. E \cap Groups \subseteq {"open", "openTimeout"}
  BY <1>1
<1>5. C \subseteq E
  BY <1>1, <1>2, <1>3, <1>4, Below
<1> QED  BY <1>5 DEF E

-----------------------------------------------------------------------------
(* A step within an operation or its early connection: what has come so far    *)
(* stays, and the operation itself does not begin.                              *)
Onward(t, u) ==
  /\ \A d \in Node : /\ None(u, d) => None(t, d)
                     /\ IsKept(t, d) => IsKept(u, d)
                     /\ IsBroken(t, d) => IsBroken(u, d)
                     /\ IsCanceled(t, d) => IsCanceled(u, d)
  /\ None(t, "root") => None(u, "root")
  /\ Waiting(u, "root") => Waiting(t, "root")

Inner ==
  /\ plan' = plan /\ observed' = observed /\ prestarted' = prestarted
  /\ attempts' = attempts /\ stops' = stops
  /\ line' \in {"none", "opening", "open", "closing"} /\ signalingTask' \in BOOLEAN
  /\ Onward(tasks, tasks')
  (* the controller lets go of the early connection when the operation ends *)
  /\ signalingTask' => signalingTask
  /\ signalingTask => signalingTask' \/ IsSettled(tasks', "root")
  /\ IsSettled(tasks', "root") => IsSettled(tasks, "root") \/ ~signalingTask'
  (* before the operation only its early connection goes on *)
  /\ plan \notin Promised => ~None(tasks, "root") /\ ticks' = ticks
  /\ None(tasks, "root") => ticks' = ticks
  /\ plan \in Promised /\ None(tasks, "root") =>
       /\ \A n \in Node \ Early : tasks'[n] = tasks[n]
       /\ IsCanceled(tasks', "open") => IsCanceled(tasks, "open")
       /\ IsCanceled(tasks', "openTimeout") => IsCanceled(tasks, "openTimeout")
       /\ ~None(tasks', "open") => ~None(tasks, "open")
  (* the signaling connection *)
  /\ plan \in Promised \/ "JoinAndReceiveIndex" \in Node =>
       /\ IsKept(tasks, "OpenSignalingConnection") => line' = line
       /\ IsKept(tasks', "OpenSignalingConnection") =>
            IsKept(tasks, "OpenSignalingConnection") \/ line' = "open"
  /\ plan \in Promised /\ IsKept(tasks', "open") =>
       IsKept(tasks, "open") \/ IsKept(tasks, "OpenSignalingConnection")
  /\ plan \notin Promised /\ "JoinAndReceiveIndex" \in Node
       /\ IsKept(tasks', "OpenSignalingConnection") /\ Waiting(tasks', "Signaling") =>
         Waiting(tasks, "Signaling")
  (* what fails, and what ends *)
  /\ plan \in Promised /\ Waiting(tasks, "root") /\ ~Ahead =>
       \A y \in Node : /\ IsBroken(tasks', y) => IsBroken(tasks, y)
                       /\ IsCanceled(tasks', y) => IsCanceled(tasks, y)
  /\ plan \in Promised /\ IsSettled(tasks', "root") => IsSettled(tasks, "root") \/ Ahead

(* A kept OnceTask of the early connection: the connection was opened. *)
LEMMA OpenKept ==
  ASSUME plan \in Promised, NEW t, TreeInv(t), IsKept(t, "open")
  PROVE  IsKept(t, "openTimeout") /\ IsKept(t, "OpenSignalingConnection")
<1>1. /\ "open" \in Groups /\ "openTimeout" \in Groups /\ HeadOf("open") = "openTimeout"
      /\ Kind("open") = "once" /\ Kind("openTimeout") = "timeout"
      /\ "OpenSignalingConnection" \in ToSet(Sub("openTimeout"))
  BY EarlyIs, OncesAre
<1>2. KeptSubs(t, "open") /\ KeptSubs(t, "openTimeout")
  BY <1>1 DEF TreeInv, GroupInv
<1>3. IsKept(t, "openTimeout")
  BY <1>1, <1>2 DEF KeptSubs
<1> QED  BY <1>1, <1>2, <1>3 DEF KeptSubs

(* Such a step keeps what goes with the connection. *)
LEMMA InnerKeeps ==
  ASSUME IInv, TreeInv(tasks'), Inner, plan \in DOMAIN Plan
  PROVE  Scalars' /\ Connection'
<1> DEFINE t == tasks  u == tasks'
<1>1. /\ Node' = Node /\ Leaves' = Leaves /\ plan' = plan
      /\ \A x \in Alone : HeadOf(x)' = HeadOf(x)
  <2>1. plan' = plan
    BY DEF Inner
  <2> QED  BY <2>1, PlanStays DEF HeadOf, Sub
<1>2. State(t) /\ State(u) /\ TreeInv(t)
  BY DEF TreeInv, IInv, CoreInv, Core
<1>3. \A d \in Node : /\ ~None(t, d) => ~None(u, d)
                      /\ IsSettled(t, d) => IsSettled(u, d)
                      /\ IsKept(u, d) => ~IsBroken(t, d)
  BY <1>2, PromiseIs DEF Inner, Onward, IsSettled
<1>4. "root" \in Node
  BY TreeFacts DEF Plain
<1>5. (None(u, "root") <=> None(t, "root")) /\ (IsSettled(t, "root") => IsSettled(u, "root"))
      /\ (Waiting(u, "root") => Waiting(t, "root"))
  BY <1>3, <1>4 DEF Inner, Onward
<1>6. plan \in Promised => "open" \in Node /\ "openTimeout" \in Node
                             /\ "OpenSignalingConnection" \in Node
  BY EarlyIs DEF Early
<1>7. plan \in Promised => {"JoinAndReceiveIndex", "Signaling"} \subseteq Node
  BY <1>1, SubtasksAre, SubFacts, StartIs, TreeFacts
<1>8. plan \in Promised => \A x \in Alone : HeadOf(x) \in Node
  BY OncesAre, SubFacts DEF Onces, Alone
<1>9. Scalars'
  BY DEF Scalars, IInv, Inner
<1>10. Local'
  BY DEF Local, IInv, Connection, Inner
<1>11. BeforeStart'
  <2> SUFFICES ASSUME None(u, "root")
               PROVE  /\ \A n \in Node : (plan \in Promised => n \notin Early) => u[n] = New
                      /\ ticks' = <<>> /\ attempts' < MaxAttempts
    BY <1>1 DEF BeforeStart
  <2>1. None(t, "root") /\ plan \in Promised
    BY <1>5 DEF Inner
  <2>2. /\ \A n \in Node \ Early : t[n] = New
        /\ ticks = <<>> /\ attempts < MaxAttempts
    BY <2>1 DEF IInv, Connection, BeforeStart
  <2> QED  BY <2>1, <2>2 DEF Inner
<1>12. Held'
  <2> SUFFICES ASSUME plan \in Promised, None(u, "root"), signalingTask'
               PROVE  /\ ~None(u, "open") /\ ~IsCanceled(u, "open") /\ ~IsCanceled(u, "openTimeout")
                      /\ prestarted' = "pending" \/ (IsKept(u, "open") /\ observed')
    BY <1>1 DEF Held
  <2>1. None(t, "root") /\ signalingTask
    BY <1>5 DEF Inner
  <2>2. /\ ~None(t, "open") /\ ~IsCanceled(t, "open") /\ ~IsCanceled(t, "openTimeout")
        /\ prestarted = "pending" \/ (IsKept(t, "open") /\ observed)
    BY <2>1 DEF IInv, Connection, Held
  <2>3. IsKept(t, "open") => IsKept(u, "open")
    BY <1>6 DEF Inner, Onward
  <2> QED  BY <1>3, <1>6, <2>1, <2>2, <2>3 DEF Inner
<1>13. Watched'
  <2> SUFFICES ASSUME observed'
               PROVE  /\ plan \in Promised /\ IsKept(u, "open") /\ prestarted' = "none"
                      /\ line' \in {"open", "closing"}
                      /\ None(u, "root") => signalingTask'
                      /\ ~None(u, "root") => line' = "open"
    BY <1>1 DEF Watched
  <2>1. /\ plan \in Promised /\ IsKept(t, "open") /\ prestarted = "none"
        /\ line \in {"open", "closing"}
        /\ None(t, "root") => signalingTask
        /\ ~None(t, "root") => line = "open"
    BY DEF IInv, Connection, Watched, Inner
  <2>2. line' = line
    <3>1. IsKept(t, "OpenSignalingConnection")
      BY <1>2, <2>1, OpenKept
    <3> QED  BY <2>1, <3>1 DEF Inner
  <2>3. IsKept(u, "open")
    BY <1>6, <2>1 DEF Inner, Onward
  <2>4. None(u, "root") => signalingTask'
    BY <1>2, <1>4, <1>5, <2>1, PromiseIs DEF Inner, IsSettled
  <2> QED  BY <1>5, <2>1, <2>2, <2>3, <2>4 DEF Inner
<1>14. Prestarted'
  <2> SUFFICES ASSUME prestarted' = "pending"
               PROVE  plan \in Promised /\ ~None(u, "open") /\ (None(u, "root") => signalingTask')
    BY <1>1 DEF Prestarted
  <2>1. plan \in Promised /\ ~None(t, "open") /\ (None(t, "root") => signalingTask)
    BY DEF IInv, Connection, Prestarted, Inner
  <2>2. None(u, "root") => signalingTask'
    BY <1>2, <1>4, <1>5, <2>1, PromiseIs DEF Inner, IsSettled
  <2> QED  BY <1>3, <1>6, <2>1, <2>2
<1>15. TimerHeld'
  <2> SUFFICES ASSUME plan \in Promised, ~None(u, "open") \/ ~None(u, "root"),
                      ~IsSettled(u, "openTimeout")
               PROVE  signalingTask' \/ IsSettled(u, "root") \/ IsCanceled(u, "openTimeout")
    BY <1>1 DEF TimerHeld
  <2>1. ~None(t, "open") \/ ~None(t, "root")
    BY <1>5 DEF Inner
  <2>2. ~IsSettled(t, "openTimeout")
    BY <1>3, <1>6
  <2>3. signalingTask \/ IsSettled(t, "root") \/ IsCanceled(t, "openTimeout")
    BY <2>1, <2>2 DEF IInv, Connection, TimerHeld
  <2>4. IsCanceled(t, "openTimeout") => IsCanceled(u, "openTimeout")
    BY <1>6 DEF Inner, Onward
  <2> QED  BY <1>5, <2>3, <2>4 DEF Inner
<1>16. JustOpened'
  <2> SUFFICES ASSUME plan \in Promised, IsKept(u, "OpenSignalingConnection"),
                      ~IsSettled(u, "open") \/ prestarted' = "pending"
               PROVE  line' = "open"
    BY <1>1 DEF JustOpened
  <2>1. ~IsSettled(t, "open") \/ prestarted = "pending"
    BY <1>3, <1>6 DEF Inner
  <2>2. IsKept(t, "OpenSignalingConnection") => line = "open"
    BY <2>1 DEF IInv, Connection, JustOpened
  <2> QED  BY <2>2 DEF Inner
<1>17. plan \in Promised /\ IsKept(u, "open") /\ ~IsKept(t, "open") => line' = "open"
  <2> SUFFICES ASSUME plan \in Promised, IsKept(u, "open"), ~IsKept(t, "open")
               PROVE  line' = "open"
    OBVIOUS
  <2>1. IsKept(t, "OpenSignalingConnection") /\ ~IsSettled(t, "open")
    BY <1>3, <1>6 DEF Inner, IsSettled
  <2>2. line = "open"
    BY <2>1 DEF IInv, Connection, JustOpened
  <2> QED  BY <2>1, <2>2 DEF Inner
<1>18. plan \in Promised /\ IsKept(t, "open") => line' = line
  <2>1. plan \in Promised /\ IsKept(t, "open") => IsKept(t, "OpenSignalingConnection")
    BY <1>2, OpenKept
  <2> QED  BY <2>1 DEF Inner
<1>19. HeldLine'
  <2> SUFFICES ASSUME plan \in Promised, None(u, "root"), signalingTask', IsKept(u, "open"),
                      IsKept(t, "open")
               PROVE  line \in {"open", "closing"}
    BY <1>1, <1>17, <1>18 DEF HeldLine
  <2> QED  BY <1>5 DEF IInv, Connection, HeldLine, Inner
<1>20. JoinLine'
  <2> SUFFICES ASSUME plan \in Promised, Waiting(u, "root"), IsKept(u, "open"),
                      IsKept(t, "open"), None(u, "JoinAndReceiveIndex"), ~IsSettled(u, "Signaling")
               PROVE  line \in {"open", "closing"}
    BY <1>1, <1>17, <1>18 DEF JoinLine, ToJoin
  <2>1. ToJoin
    BY <1>3, <1>7 DEF ToJoin
  <2> QED  BY <1>5, <2>1 DEF IInv, Connection, JoinLine
<1>21. OwnLine'
  <2> SUFFICES ASSUME plan \notin Promised, "JoinAndReceiveIndex" \in Node, Waiting(u, "Signaling"),
                      IsKept(u, "OpenSignalingConnection"), None(u, "JoinAndReceiveIndex")
               PROVE  line' = "open"
    BY <1>1 DEF OwnLine
  <2>1. Waiting(t, "Signaling") /\ None(t, "JoinAndReceiveIndex")
    BY <1>3 DEF Inner
  <2>2. IsKept(t, "OpenSignalingConnection") => line = "open"
    BY <2>1 DEF IInv, Connection, OwnLine
  <2> QED  BY <2>2 DEF Inner
<1>22. Dropped'
  BY <1>5 DEF Dropped, IInv, Connection, Inner
<1>23. plan \in Promised /\ Ahead => Ahead'
  BY <1>1, <1>3, <1>8 DEF Ahead
<1>24. Cascade'
  <2> SUFFICES ASSUME plan \in Promised, Waiting(u, "root"), ~Ahead', NEW y \in Node
               PROVE  ~IsBroken(u, y) /\ (IsCanceled(u, y) => y \in Leaves /\ ~None(u, y))
    BY <1>1 DEF Cascade
  <2>1. ~Ahead /\ Waiting(t, "root")
    BY <1>5, <1>23
  <2>2. ~IsBroken(t, y) /\ (IsCanceled(t, y) => y \in Leaves /\ ~None(t, y))
    BY <2>1 DEF IInv, Connection, Cascade
  <2> QED  BY <1>3, <2>1, <2>2 DEF Inner
<1>25. AllBegun'
  <2> SUFFICES ASSUME plan \in Promised, IsSettled(u, "root")  PROVE Ahead'
    BY <1>1 DEF AllBegun
  <2> QED  BY <1>23 DEF IInv, Connection, AllBegun, Inner
<1> QED
  BY <1>9, <1>10, <1>11, <1>12, <1>13, <1>14, <1>15, <1>16, <1>19, <1>20, <1>21, <1>22, <1>24,
     <1>25 DEF Connection

(* A start does not clean a session up. *)
LEMMA CleansNothing ==
  ASSUME plan \in DOMAIN Plan, plan \in Promised \/ "JoinAndReceiveIndex" \in Node
  PROVE  "CleanStoppedSession" \notin Leaves
<1> DEFINE c == "CleanStoppedSession"
<1>1. CASE plan \notin Promised
  BY <1>1, OthersAre
<1>2. CASE plan \in Promised
  <2>1. \A x \in Onces : HeadOf(x) # c /\ c \notin Dependencies(x)
    BY <1>2, OncesAre
  <2>2. \A x \in Onces : c \notin ToSet(Sub(x))
    BY <2>1, SubFacts DEF Onces
  <2>3. c \notin ToSet(Sub("root")) /\ c \notin ToSet(Sub("connectionTimeout"))
        /\ c \notin ToSet(Sub("Signaling")) /\ c \notin ToSet(Sub("Peer"))
        /\ c \notin ToSet(Sub("openTimeout"))
    BY <1>2, SubtasksAre, EarlyIs
  <2>4. "presenceTimeout" \in Groups => c \notin ToSet(Sub("presenceTimeout"))
                                         /\ c \notin ToSet(Sub("FinalizeConnection"))
    BY <1>2, SubtasksAre
  <2>5. Groups \subseteq {"root", "monitor", "connectionTimeout", "Peer", "subscribeAck", "ice",
             "setLocalDescription", "createSDP", "attachMediaInput", "createPeerConnection",
             "receiveAudioInput", "signaling", "Signaling", "open", "openTimeout",
             "presenceTimeout", "FinalizeConnection"}
        /\ ("FinalizeConnection" \in Groups => "presenceTimeout" \in Groups)
    BY <1>2, StartIs
  <2>6. \A g \in Groups : g \in Onces \cup {"root", "connectionTimeout", "Signaling", "Peer",
                                      "openTimeout", "presenceTimeout", "FinalizeConnection"}
    BY <1>2, <2>5, OncesAre
  <2>7. \A g \in Groups : c \notin ToSet(Sub(g))
    BY <2>2, <2>3, <2>4, <2>5, <2>6
  <2> QED  BY <2>7, ParentIs DEF Leaves
<1> QED  BY <1>1, <1>2

(* The task that opens the connection. *)
LEMMA OpeningIs ==
  ASSUME plan \in DOMAIN Plan, plan \in Promised \/ "JoinAndReceiveIndex" \in Node
  PROVE  /\ "OpenSignalingConnection" \in Leaves /\ "OpenSignalingConnection" \in Node
         /\ "OpenSignalingConnection" \notin Onces
         /\ Task["OpenSignalingConnection"].waits
         /\ Task["OpenSignalingConnection"].cancel = "rejects"
<1> DEFINE o == "OpenSignalingConnection"
<1>1. Task[o].waits /\ Task[o].cancel = "rejects" /\ o \in DOMAIN Task
  BY DEF Task, OpenSignalingConnection, Waits
<1>2. o \in Node
  <2>1. CASE plan \in Promised
    BY <2>1, EarlyIs DEF Early
  <2>2. CASE plan \notin Promised
    BY <2>2, OthersAre, SubFacts, TreeFacts
  <2> QED  BY <2>1, <2>2
<1>3. o \in Leaves
  BY <1>1, <1>2, TreeFacts DEF Leaves
<1> QED  BY <1>1, <1>2, <1>3 DEF Leaves, Onces

(* The connection opens only when the task that opens it begins. *)
LEMMA RunLine ==
  ASSUME plan \in DOMAIN Plan, NEW t, TreeInv(t), NEW n \in Node, Run(n, t)
  PROVE  /\ line' \in {line, "opening"}
         /\ plan \in Promised \/ "JoinAndReceiveIndex" \in Node =>
              line' = line \/ None(t, "OpenSignalingConnection")
<1> DEFINE o == "OpenSignalingConnection"
<1>1. /\ line' \in {line, "opening"}
      /\ line' = line \/ t[o].status = "idle"
  BY DEF Run
<1>2. ASSUME plan \in Promised \/ "JoinAndReceiveIndex" \in Node, t[o].status = "idle"
      PROVE  None(t, o)
  <2>1. o \in Node /\ o \notin Onces
    BY <1>2, OpeningIs
  <2>2. StatusOf(t, o)
    BY <2>1 DEF TreeInv
  <2> QED  BY <1>2, <2>1, <2>2 DEF StatusOf
<1> QED  BY <1>1, <1>2

(* The task that opens the connection is not done when it begins. *)
LEMMA NotOpened ==
  ASSUME plan \in DOMAIN Plan, plan \in Promised \/ "JoinAndReceiveIndex" \in Node,
         NEW t, NEW u, TreeInv(t), Begins(t, u, "OpenSignalingConnection")
  PROVE  ~IsKept(u, "OpenSignalingConnection")
<1> DEFINE o == "OpenSignalingConnection"
<1>1. o \in Leaves /\ o \in Node /\ o \notin Onces /\ Task[o].waits
  BY OpeningIs
<1>2. StatusOf(t, o)
  BY <1>1 DEF TreeInv
<1>3. CASE IsCanceled(t, o)
  <2>1. IsBroken(u, o)
    BY <1>1, <1>2, <1>3, BeginsIs
  <2> QED  BY <2>1 DEF IsBroken, IsKept
<1>4. CASE ~IsCanceled(t, o)
  <2>1. u[o] = [status |-> "running", promise |-> "pending"]
    BY <1>1, <1>4 DEF Begins
  <2> QED  BY <2>1 DEF IsKept
<1> QED  BY <1>3, <1>4

(* A group that has begun runs one of its tasks. *)
LEMMA RunInner ==
  ASSUME IInv, plan \in DOMAIN Plan, NEW g \in Groups, ~None(tasks, g), NEW n \in ToSet(Sub(g)),
         CanRun(tasks, n), Run(n, tasks),
         UNCHANGED <<plan, ticks, signalingTask, prestarted, observed, attempts, stops>>
  PROVE  CoreInv' /\ Inner /\ Ran(tasks, tasks', n, Reached(n, tasks))
<1> DEFINE t == tasks  u == tasks'  R == Reached(n, tasks)  o == "OpenSignalingConnection"
<1>1. n \in Node /\ "root" \in Node /\ Groups \subseteq Node /\ n # "root"
  BY SubFacts, TreeFacts DEF Plain
<1>2. Core(t, ticks, timers) /\ TreeInv(t) /\ State(t)
  BY DEF IInv, CoreInv, Core, TreeInv
<1>3. Core(u, ticks, timers') /\ Ran(t, u, n, R)
  BY <1>1, <1>2, CoreRun
<1>4. CoreInv'
  BY <1>3, PlanStays DEF CoreInv
<1>5. TreeInv(u) /\ State(u)
  BY <1>3 DEF Core, TreeInv
<1>6. \A d \in Node : /\ u[d] = t[d] \/ (d \in R /\ Begins(t, u, d))
                      /\ IsCanceled(u, d) <=> IsCanceled(t, d)
                      /\ ~None(t, d) => u[d] = t[d]
  BY <1>1, <1>2, <1>3, RanIs
<1>7. \A d \in Node : StatusOf(t, d)
  BY <1>2 DEF TreeInv
<1>8. u["root"] = t["root"]
  <2>1. "root" \notin R
    <3>1. \A h \in Groups : "root" \notin ToSet(Sub(h)) /\ RunsFirst(h) \subseteq ToSet(Sub(h))
      BY TreeFacts, RunsFirstIs
    <3> QED  BY <1>1, <1>3, <3>1 DEF Ran
  <2> QED  BY <1>1, <1>6, <2>1
<1>9. Same(t, u, "root") /\ (IsSettled(u, "root") <=> IsSettled(t, "root"))
  BY <1>8, SameIs DEF Same, SamePromise, IsSettled
<1>10. Onward(t, u)
  <2>1. \A d \in Node : ~None(t, d) => Same(t, u, d)
    BY <1>6, SameIs
  <2>2. \A d \in Node : /\ None(u, d) => None(t, d)
                        /\ IsKept(t, d) => IsKept(u, d)
                        /\ IsBroken(t, d) => IsBroken(u, d)
    BY <1>2, <2>1, PromiseIs DEF Same, SamePromise
  <2> QED  BY <1>6, <1>9, <2>2 DEF Onward, Same, SamePromise
<1>11. ASSUME None(t, "root")  PROVE plan \in Promised /\ g \in Early
  <2>1. \A d \in Node : (plan \in Promised => d \notin Early) => t[d] = New
    BY <1>11 DEF IInv, Connection, BeforeStart
  <2>2. t[g] # New
    BY DEF None, New
  <2> QED  BY <1>1, <2>1, <2>2
<1>12. ASSUME plan \in Promised, None(t, "root")
       PROVE  /\ \A d \in Node \ Early : u[d] = t[d]
              /\ ~None(t, "open")
  <2>1. g = "open" \/ g = "openTimeout"
    BY <1>11, <1>12, EarlyIs DEF Early, Leaves
  <2>2. n \in Early
    BY <1>12, <2>1, EarlyIs DEF Early
  <2>3. R \subseteq Early
    BY <1>3, <1>12, <2>2, EarlyRan
  <2>4. ~None(t, "open")
    <3>1. ChildNone(t, "open") /\ "openTimeout" \in ToSet(Sub("open"))
      BY <1>2, <1>12, EarlyIs DEF TreeInv, GroupInv
    <3> QED  BY <2>1, <3>1 DEF ChildNone
  <2> QED  BY <1>6, <2>3, <2>4
<1>13. ASSUME plan \in Promised \/ "JoinAndReceiveIndex" \in Node
       PROVE  /\ IsKept(t, o) => line' = line
              /\ IsKept(u, o) => IsKept(t, o)
  <2>1. o \in Node
    BY <1>13, OpeningIs
  <2>2. IsKept(t, o) => line' = line
    BY <1>1, <1>2, <1>13, <2>1, RunLine, PromiseIs
  <2>3. IsKept(u, o) => IsKept(t, o)
    <3>1. u[o] = t[o] \/ Begins(t, u, o)
      BY <1>6, <2>1
    <3>2. Begins(t, u, o) => ~IsKept(u, o)
      BY <1>2, <1>13, NotOpened
    <3> QED  BY <3>1, <3>2 DEF IsKept
  <2> QED  BY <2>2, <2>3
<1>14. plan \in Promised /\ IsKept(u, "open") => IsKept(t, "open")
  <2> SUFFICES ASSUME plan \in Promised, IsKept(u, "open")  PROVE IsKept(t, "open")
    OBVIOUS
  <2>1. "open" \in Groups /\ "open" \in Node
    BY <1>1, EarlyIs
  <2>2. ~Begins(t, u, "open")
    BY <1>7, <2>1, BeginsIs
  <2> QED  BY <1>6, <2>1, <2>2 DEF IsKept
<1>15. ASSUME plan \notin Promised, "JoinAndReceiveIndex" \in Node, IsKept(u, o),
              Waiting(u, "Signaling")
       PROVE  Waiting(t, "Signaling")
  <2>1. "Signaling" \in Groups /\ "Signaling" \in Node /\ o \in ToSet(Sub("Signaling")) /\ o # "open"
    BY <1>1, <1>15, OthersAre, SubFacts
  <2>2. IsKept(t, o) /\ o \in Node
    BY <1>13, <1>15, OpeningIs
  <2>3. ~None(t, "Signaling")
    <3>1. ChildNone(t, "Signaling")
      BY <1>2, <2>1 DEF TreeInv, GroupInv
    <3> QED  BY <1>2, <2>1, <2>2, <3>1, PromiseIs DEF ChildNone
  <2> QED  BY <1>6, <1>15, <2>1, <2>3 DEF Waiting
<1>16. ASSUME plan \in Promised, Waiting(t, "root"), ~Ahead, NEW y \in Node
       PROVE  /\ IsBroken(u, y) => IsBroken(t, y)
              /\ IsCanceled(u, y) => IsCanceled(t, y)
  <2>1. IsCanceled(t, y) => ~None(t, y)
    BY <1>16 DEF IInv, Connection, Cascade
  <2>2. Begins(t, u, y) => ~IsBroken(u, y)
    BY <1>7, <2>1, BeginsIs
  <2> QED  BY <1>6, <2>2 DEF IsBroken
<1>17. line' \in {"none", "opening", "open", "closing"} /\ signalingTask' \in BOOLEAN
  BY <1>1, <1>2, RunLine DEF IInv, Scalars
<1>18. Inner
  BY <1>6, <1>9, <1>10, <1>11, <1>12, <1>13, <1>14, <1>15, <1>16, <1>17, EarlyIs DEF Inner, Early
<1> QED  BY <1>3, <1>4, <1>18

(* A group that goes on is such a step. *)
LEMMA GoOnInner ==
  ASSUME IInv, plan \in DOMAIN Plan, NEW g \in Groups, GoOn(g)
  PROVE  CoreInv' /\ Inner
<1>1. TreeInv(tasks)
  BY DEF IInv, CoreInv, Core
<1>2. UNCHANGED <<plan, ticks, signalingTask, prestarted, observed, attempts, stops>>
  BY DEF GoOn, connectionVars
<1>3. CASE Goes(g) /\ Run(Sub(g)[Position(g) + 1], tasks)
  <2>1. Sub(g)[Position(g) + 1] \in ToSet(Sub(g)) /\ CanRun(tasks, Sub(g)[Position(g) + 1])
    BY <1>1, <1>3, GoesCanRun
  <2>2. ~None(tasks, g)
    BY <1>3 DEF Goes, Pending, None
  <2> QED  BY <1>2, <1>3, <2>1, <2>2, RunInner
<1>4. CASE GoesOnce(g) /\ Run(Head(Sub(g)), tasks)
  <2>1. HeadOf(g) \in ToSet(Sub(g)) /\ CanRun(tasks, HeadOf(g))
    BY <1>1, <1>4, GoesOnceCanRun
  <2>2. ~None(tasks, g)
    BY <1>4 DEF GoesOnce, None
  <2> QED  BY <1>2, <1>4, <2>1, <2>2, RunInner DEF HeadOf
<1> QED  BY <1>3, <1>4 DEF GoOn

(* No task begins to wait. *)
NothingBegins == \A d \in Node : Waiting(tasks', d) => Waiting(tasks, d)

(* A promise is settled. *)
LineSettles(n, promise) ==
  /\ line' \in {"none", "opening", "open", "closing"}
  /\ plan \in Promised \/ "JoinAndReceiveIndex" \in Node =>
       /\ n # "OpenSignalingConnection" => line' = line
       /\ n = "OpenSignalingConnection" /\ promise = "kept" => line' = "open"

(* So is a promise that is settled. *)
LEMMA SettleInner ==
  ASSUME IInv, plan \in DOMAIN Plan, NEW n \in Node, NEW promise \in {"kept", "broken"},
         Waiting(tasks, n), Settles(tasks, tasks', n, promise),
         UNCHANGED <<plan, observed, prestarted, attempts, stops>>,
         signalingTask' = (signalingTask /\ n # "root"),
         ticks' = ticks \/ (plan \in Promised /\ ~None(tasks, "root")),
         LineSettles(n, promise),
         plan \in Promised /\ n = "open" /\ promise = "kept" =>
           IsKept(tasks, "OpenSignalingConnection"),
         plan \in Promised /\ Waiting(tasks, "root") /\ promise = "broken" => Ahead,
         plan \in Promised /\ n = "root" => Ahead
  PROVE  Inner /\ NothingBegins
<1> DEFINE t == tasks  u == tasks'  o == "OpenSignalingConnection"
<1>1. "root" \in Node
  BY TreeFacts DEF Plain
<1>2. TreeInv(t) /\ State(t) /\ signalingTask \in BOOLEAN /\ State(u)
  BY DEF IInv, CoreInv, Core, TreeInv, Scalars, Settles
<1>3. \A d \in Node : d # n => Same(t, u, d)
  BY SameIs DEF Settles
<1>4. /\ ~None(t, n) /\ ~IsKept(t, n) /\ ~IsBroken(t, n)
      /\ ~None(u, n) /\ ~Waiting(u, n)
      /\ IsKept(u, n) <=> promise = "kept"
      /\ IsBroken(u, n) <=> promise = "broken"
  BY DEF Waiting, None, IsKept, IsBroken, Settles
<1>5. IsCanceled(u, n) <=> IsCanceled(t, n)
  BY DEF IsCanceled, Settles
<1>6. Onward(t, u)
  BY <1>1, <1>3, <1>4, <1>5 DEF Onward, Same, SamePromise
<1>7. IsSettled(u, "root") => IsSettled(t, "root") \/ n = "root"
  BY <1>1, <1>3 DEF Same, SamePromise, IsSettled
<1>8. n = "root" => IsSettled(u, "root")
  BY <1>4 DEF IsSettled
<1>9. ASSUME None(t, "root")
      PROVE  plan \in Promised /\ n \in Early
  <2>1. \A d \in Node : (plan \in Promised => d \notin Early) => t[d] = New
    BY <1>9 DEF IInv, Connection, BeforeStart
  <2>2. t[n] # New
    BY DEF Waiting, New
  <2> QED  BY <2>1, <2>2
<1>10. ASSUME plan \in Promised \/ "JoinAndReceiveIndex" \in Node
       PROVE  /\ IsKept(t, o) => line' = line
              /\ IsKept(u, o) => IsKept(t, o) \/ line' = "open"
  <2>1. o \in Node
    BY <1>10, OpeningIs
  <2> QED  BY <1>3, <1>4, <1>10, <2>1 DEF Same, SamePromise, LineSettles
<1>11. ASSUME plan \in Promised
       PROVE  /\ IsKept(u, "open") => IsKept(t, "open") \/ IsKept(t, o)
              /\ None(t, "root") => \A d \in Node \ Early : u[d] = t[d]
              /\ IsCanceled(u, "open") => IsCanceled(t, "open")
              /\ IsCanceled(u, "openTimeout") => IsCanceled(t, "openTimeout")
              /\ ~None(u, "open") => ~None(t, "open")
  <2>1. "open" \in Node /\ "openTimeout" \in Node
    BY <1>11, EarlyIs DEF Early
  <2>2. None(t, "root") => \A d \in Node \ Early : u[d] = t[d]
    BY <1>9 DEF Settles
  <2> QED  BY <1>3, <1>4, <1>5, <1>11, <2>1, <2>2 DEF Same, SamePromise
<1>12. ASSUME plan \notin Promised, "JoinAndReceiveIndex" \in Node, Waiting(u, "Signaling")
       PROVE  Waiting(t, "Signaling")
  <2>1. "Signaling" \in Node
    BY <1>12, OthersAre, TreeFacts
  <2> QED  BY <1>3, <1>4, <1>12, <2>1 DEF Same, SamePromise
<1>13. ASSUME plan \in Promised, Waiting(t, "root"), ~Ahead, NEW y \in Node
       PROVE  /\ IsBroken(u, y) => IsBroken(t, y)
              /\ IsCanceled(u, y) => IsCanceled(t, y)
  BY <1>3, <1>4, <1>5, <1>13 DEF Same, SamePromise
<1>14. plan \in Promised /\ IsSettled(u, "root") => IsSettled(t, "root") \/ Ahead
  BY <1>7
<1>15. Inner
  BY <1>2, <1>6, <1>7, <1>8, <1>9, <1>10, <1>11, <1>12, <1>13, <1>14
  DEF Inner, LineSettles
<1> QED  BY <1>3, <1>4, <1>15 DEF NothingBegins, Same, SamePromise

(* A task that ends. *)
LEMMA EndInner ==
  ASSUME IInv, plan \in DOMAIN Plan, NEW n \in Node, NEW promise \in {"kept", "broken"},
         CanSettle(tasks, n, promise), End(n, promise),
         UNCHANGED <<plan, ticks, observed, prestarted, attempts, stops>>,
         signalingTask' = (signalingTask /\ n # "root"),
         LineSettles(n, promise),
         plan \in Promised => /\ ~(n = "ReceiveAudioInput" /\ promise = "broken")
                              /\ ~(n = "receiveAudioInput" /\ promise = "broken"),
         plan \in Promised /\ Waiting(tasks, "root") /\ promise = "broken" => Ahead,
         plan \in Promised /\ n = "root" => Ahead
  PROVE  CoreInv' /\ Inner /\ NothingBegins
<1>1. Core(tasks, ticks, timers) /\ TreeInv(tasks) /\ Waiting(tasks, n)
  BY DEF IInv, CoreInv, Core, CanSettle
<1>2. Core(tasks', ticks, timers') /\ Settles(tasks, tasks', n, promise)
  BY <1>1, CoreSettle
<1>3. CoreInv'
  BY <1>2, PlanStays DEF CoreInv
<1>4. plan \in Promised /\ n = "open" /\ promise = "kept" =>
        IsKept(tasks, "OpenSignalingConnection")
  <2> SUFFICES ASSUME plan \in Promised, n = "open", promise = "kept"
               PROVE  IsKept(tasks, "OpenSignalingConnection")
    OBVIOUS
  <2>1. IsKept(tasks, "openTimeout")
    BY EarlyIs, OncesAre DEF CanSettle
  <2>2. KeptSubs(tasks, "openTimeout")
    BY <1>1, EarlyIs DEF TreeInv, GroupInv
  <2> QED  BY <2>1, <2>2, EarlyIs DEF KeptSubs
<1>5. Inner /\ NothingBegins
  BY <1>1, <1>2, <1>4, SettleInner
<1> QED  BY <1>3, <1>5

(* A start that ends well has begun all; one that fails has not failed early. *)
LEMMA KeptAhead ==
  ASSUME plan \in Promised, NEW t, TreeInv(t), IsKept(t, "connectionTimeout")
  PROVE  \A x \in Alone : ~None(t, HeadOf(x))
<1>0. plan \in DOMAIN Plan /\ Groups \subseteq Node
  BY StartIs, TreeFacts
<1>1. {"root", "monitor", "connectionTimeout", "Peer", "subscribeAck", "ice",
       "setLocalDescription", "createSDP", "attachMediaInput", "createPeerConnection",
       "receiveAudioInput", "signaling", "Signaling", "open", "openTimeout"} \subseteq Groups
  BY StartIs
<1>2. State(t) /\ \A g \in Groups : KeptSubs(t, g) /\ HeadAfter(t, g)
  BY DEF TreeInv, GroupInv
<1>3. \A x \in Onces : IsKept(t, x) => IsKept(t, HeadOf(x)) /\ ~None(t, HeadOf(x))
  <2>1. \A x \in Onces : IsKept(t, x) => IsKept(t, HeadOf(x))
    BY <1>2 DEF KeptSubs, Onces
  <2> QED  BY <2>1 DEF IsKept, None
<1>4. \A x \in Onces : IsKept(t, x) => \A d \in Dependencies(x) : IsKept(t, d)
  BY <1>2, <1>3 DEF HeadAfter, Onces
<1>5. Kind("connectionTimeout") = "timeout" /\ Kind("Peer") = "serial"
      /\ Kind("Signaling") = "serial"
  BY StartIs
<1>6. IsKept(t, "Peer")
  BY <1>1, <1>2, <1>5, SubtasksAre DEF KeptSubs
<1>7. IsKept(t, "subscribeAck")
  BY <1>1, <1>2, <1>5, <1>6, SubtasksAre DEF KeptSubs
<1>8. IsKept(t, "ice")
  BY <1>4, <1>7, OncesAre
<1>9. IsKept(t, "setLocalDescription")
  BY <1>4, <1>8, OncesAre
<1>10. IsKept(t, "createSDP")
  BY <1>4, <1>9, OncesAre
<1>11. IsKept(t, "attachMediaInput")
  BY <1>4, <1>10, OncesAre
<1>12. IsKept(t, "createPeerConnection") /\ IsKept(t, "receiveAudioInput")
  BY <1>4, <1>11, OncesAre
<1>13. IsKept(t, "signaling")
  BY <1>4, <1>12, OncesAre
<1>14. IsKept(t, "Signaling")
  BY <1>3, <1>13, OncesAre
<1>15. IsKept(t, "open")
  BY <1>1, <1>2, <1>5, <1>14, SubtasksAre DEF KeptSubs
<1> QED  BY <1>3, <1>12, <1>13, <1>15, OncesAre DEF Alone

(* A group that ends well is a step within, and nothing begins. *)
LEMMA EndWellInner ==
  ASSUME IInv, plan \in DOMAIN Plan, NEW g \in Groups, EndWell(g)
  PROVE  CoreInv' /\ Inner /\ NothingBegins
<1>1. TreeInv(tasks) /\ g \in Node
  BY TreeFacts DEF IInv, CoreInv, Core
<1>2. CanSettle(tasks, g, "kept")
  BY <1>1, EndsWellCanSettle DEF EndWell
<1>3. g # "OpenSignalingConnection" \/ ~(plan \in Promised \/ "JoinAndReceiveIndex" \in Node)
  BY OpeningIs DEF Leaves
<1>4. LineSettles(g, "kept")
  BY <1>3 DEF LineSettles, EndWell, IInv, Scalars
<1>5. plan \in Promised /\ g = "root" => Ahead
  <2> SUFFICES ASSUME plan \in Promised, g = "root"  PROVE Ahead
    OBVIOUS
  <2>1. Kind("root") = "serial" /\ "connectionTimeout" \in ToSet(Sub("root"))
    BY StartIs, SubtasksAre
  <2>2. IsKept(tasks, "connectionTimeout")
    BY <1>2, <2>1 DEF CanSettle
  <2> QED  BY <1>1, <2>2, KeptAhead DEF Ahead
<1>6. End(g, "kept") /\ signalingTask' = (signalingTask /\ g # "root")
      /\ UNCHANGED <<plan, ticks, observed, prestarted, attempts, stops>>
  BY DEF EndWell, ForgetSignalingTask
<1> QED  BY <1>1, <1>2, <1>4, <1>5, <1>6, EndInner

(* So is one that fails. *)
LEMMA EndBadlyInner ==
  ASSUME IInv, plan \in DOMAIN Plan, NEW g \in Groups, EndBadly(g)
  PROVE  CoreInv' /\ Inner /\ NothingBegins
<1>1. TreeInv(tasks) /\ InputInv(tasks) /\ g \in Node
  BY TreeFacts DEF IInv, CoreInv, Core
<1>2. CanSettle(tasks, g, "broken")
  BY <1>1, EndsBadlyCanSettle DEF EndBadly, InputInv
<1>3. g # "OpenSignalingConnection" \/ ~(plan \in Promised \/ "JoinAndReceiveIndex" \in Node)
  BY OpeningIs DEF Leaves
<1>4. LineSettles(g, "broken")
  BY <1>3 DEF LineSettles, EndBadly, IInv, Scalars
<1>5. plan \in Promised /\ Waiting(tasks, "root") => Ahead
  <2> SUFFICES ASSUME plan \in Promised, Waiting(tasks, "root"), ~Ahead  PROVE FALSE
    OBVIOUS
  <2>1. \A y \in Node : ~IsBroken(tasks, y) /\ (IsCanceled(tasks, y) => y \in Leaves)
    BY DEF IInv, Connection, Cascade
  <2>2. ~IsCanceled(tasks, g)
    BY <1>1, <2>1 DEF Leaves
  <2>3. Pending(g) /\ EndsBadly(g)
    BY DEF EndBadly, EndsBadly
  <2>4. CASE Kind(g) \in {"serial", "each"}
    <3>1. Awaited(g) \in Node
      BY <1>1, <2>3, <2>4, AwaitedIs, SubFacts, NamesAre
    <3> QED  BY <2>1, <2>2, <2>3, <2>4, <3>1, NamesAre DEF EndsBadly, IsCanceled
  <2>5. CASE Kind(g) \notin {"serial", "each"}
    <3>1. \E d \in ToSet(Sub(g)) : Broken(d)
      BY <2>3, <2>5 DEF EndsBadly
    <3> QED  BY <2>1, <3>1, SubFacts, NamesAre
  <2> QED  BY <2>4, <2>5
<1>6. plan \in Promised /\ g = "root" => Ahead
  BY <1>2, <1>5 DEF CanSettle
<1>7. plan \in Promised => g # "receiveAudioInput" /\ g # "ReceiveAudioInput"
  <2> SUFFICES ASSUME plan \in Promised  PROVE g # "receiveAudioInput" /\ g # "ReceiveAudioInput"
    OBVIOUS
  <2>1. g # "ReceiveAudioInput"
    BY InputIs DEF Leaves
  <2>2. ASSUME g = "receiveAudioInput"  PROVE FALSE
    <3>1. Kind(g) = "once" /\ ToSet(Sub(g)) = {"ReceiveAudioInput"}
      <4>1. Kind("receiveAudioInput") = "once" /\ Sub("receiveAudioInput") = <<"ReceiveAudioInput">>
        BY StartIs
      <4> QED  BY <2>2, <4>1, TupleSets
    <3>2. Broken("ReceiveAudioInput")
      BY <3>1 DEF EndBadly, EndsBadly
    <3> QED  BY <1>1, <3>2, NamesAre DEF InputInv
  <2> QED  BY <2>1, <2>2
<1>8. End(g, "broken") /\ signalingTask' = (signalingTask /\ g # "root")
      /\ UNCHANGED <<plan, ticks, observed, prestarted, attempts, stops>>
  BY DEF EndBadly, ForgetSignalingTask
<1> QED  BY <1>1, <1>2, <1>4, <1>5, <1>6, <1>7, <1>8, EndInner

(* So is an answer. *)
LEMMA AnswerInner ==
  ASSUME IInv, plan \in DOMAIN Plan, NEW n \in Leaves, Answer(n)
  PROVE  CoreInv' /\ Inner /\ NothingBegins
<1>1. n \in Node /\ n \notin Groups /\ n # "root" /\ Waiting(tasks, n)
  BY TreeFacts, NamesAre DEF Leaves, Plain, Answer
<1>2. CanSettle(tasks, n, "kept")
  BY <1>1 DEF CanSettle
<1>3. LineSettles(n, "kept")
  <2>1. line' = IF n = "OpenSignalingConnection" THEN "open"
                ELSE IF n = "CleanStoppedSession" THEN "none" ELSE line
    BY DEF Answer
  <2>2. plan \in Promised \/ "JoinAndReceiveIndex" \in Node => n # "CleanStoppedSession"
    BY CleansNothing
  <2>3. line \in {"none", "opening", "open", "closing"}
    BY DEF IInv, Scalars
  <2> QED  BY <2>1, <2>2, <2>3 DEF LineSettles
<1>4. /\ End(n, "kept") /\ signalingTask' = signalingTask
      /\ UNCHANGED <<plan, ticks, observed, prestarted, attempts, stops>>
  BY DEF Answer, connectionVars
<1>5. signalingTask' = (signalingTask /\ n # "root")
  BY <1>1, <1>4 DEF IInv, Scalars
<1> QED  BY <1>1, <1>2, <1>3, <1>4, <1>5, EndInner

(* So is a failure. *)
LEMMA FailureInner ==
  ASSUME IInv, plan \in DOMAIN Plan, NEW n \in Leaves, Failure(n)
  PROVE  CoreInv' /\ Inner /\ NothingBegins
<1>1. n \in Node /\ n \notin Groups /\ n # "root" /\ Waiting(tasks, n) /\ Quiet
  BY TreeFacts, NamesAre DEF Leaves, Plain, Failure
<1>2. CanSettle(tasks, n, "broken")
  BY <1>1 DEF CanSettle
<1>3. LineSettles(n, "broken")
  <2>1. line' = IF n = "OpenSignalingConnection" THEN "none" ELSE line
    BY DEF Failure
  <2>2. line \in {"none", "opening", "open", "closing"}
    BY DEF IInv, Scalars
  <2> QED  BY <2>1, <2>2 DEF LineSettles
<1>4. /\ End(n, "broken") /\ signalingTask' = signalingTask
      /\ UNCHANGED <<plan, ticks, observed, prestarted, attempts, stops>>
  BY DEF Failure, connectionVars
<1>5. signalingTask' = (signalingTask /\ n # "root")
  BY <1>1, <1>4 DEF IInv, Scalars
<1>6. plan \in Promised => n # "ReceiveAudioInput" /\ n # "receiveAudioInput"
  <2>1. plan \in Promised /\ n = "ReceiveAudioInput" => FALSE
    BY InputIs DEF Failure
  <2>2. plan \in Promised /\ n = "receiveAudioInput" => FALSE
    BY <1>1, InputIs
  <2> QED  BY <2>1, <2>2
<1>7. plan \in Promised /\ Waiting(tasks, "root") => Ahead
  BY <1>1, QuietAhead DEF IInv, CoreInv, Core, Connection
<1> QED  BY <1>1, <1>2, <1>3, <1>4, <1>5, <1>6, <1>7, EndInner

(* The tasks stay as they are. *)
LEMMA StillInner ==
  ASSUME IInv, plan \in DOMAIN Plan, tasks' = tasks,
         UNCHANGED <<plan, line, signalingTask, observed, prestarted, attempts, stops>>,
         plan \in Promised, ~None(tasks, "root")
  PROVE  Inner /\ NothingBegins
<1>1. Onward(tasks, tasks')
  BY DEF Onward
<1>2. IsSettled(tasks', "root") <=> IsSettled(tasks, "root")
  BY DEF IsSettled, IsKept, IsBroken
<1>3. /\ IsKept(tasks', "OpenSignalingConnection") <=> IsKept(tasks, "OpenSignalingConnection")
      /\ IsKept(tasks', "open") <=> IsKept(tasks, "open")
      /\ \A y : /\ IsBroken(tasks', y) => IsBroken(tasks, y)
                /\ IsCanceled(tasks', y) => IsCanceled(tasks, y)
  BY DEF IsKept, IsBroken, IsCanceled
<1>4. line \in {"none", "opening", "open", "closing"} /\ signalingTask \in BOOLEAN
  BY DEF IInv, Scalars
<1> QED  BY <1>1, <1>2, <1>3, <1>4 DEF Inner, NothingBegins, Waiting

(* So is cancel(). *)
LEMMA CancelInner ==
  ASSUME IInv, plan \in DOMAIN Plan, Quiet, NEW n \in Node, NEW C, Cancels(tasks, tasks', n, C),
         UNCHANGED <<plan, line, signalingTask, observed, prestarted, attempts, stops>>,
         plan \notin Promised => ~None(tasks, "root") /\ ticks' = ticks,
         None(tasks, "root") => n = "OpenSignalingConnection" /\ ticks' = ticks
  PROVE  Inner /\ NothingBegins
<1> DEFINE t == tasks  u == tasks'  o == "OpenSignalingConnection"
<1>1. "root" \in Node /\ "root" \in Groups /\ Groups \subseteq Node
  BY TreeFacts DEF Plain
<1>2. TreeInv(t) /\ State(t) /\ signalingTask \in BOOLEAN /\ State(u)
      /\ line \in {"none", "opening", "open", "closing"}
  BY DEF IInv, CoreInv, Core, TreeInv, Scalars, Cancels
<1>3. \A d \in Node : /\ d \notin C => u[d] = t[d]
                      /\ d \in C => IsCanceled(u, d) /\ ~IsCanceled(t, d)
                      /\ d \notin Leaves \/ ~Waiting(t, d) => SamePromise(t, u, d)
                      /\ None(u, d) <=> None(t, d)
  BY <1>2, CanceledAre
<1>4. \A d \in Groups : SamePromise(t, u, d)
  BY <1>1, <1>3 DEF Leaves
<1>5. Onward(t, u)
  <2>1. \A d \in Node : IsKept(t, d) \/ IsBroken(t, d) => SamePromise(t, u, d)
    BY <1>2, <1>3, PromiseIs
  <2>2. \A d \in Node : /\ IsKept(t, d) => IsKept(u, d)
                        /\ IsBroken(t, d) => IsBroken(u, d)
    BY <2>1 DEF SamePromise
  <2>3. \A d \in Node : IsCanceled(t, d) => IsCanceled(u, d)
    BY <1>3 DEF IsCanceled
  <2> QED  BY <1>1, <1>3, <1>4, <2>2, <2>3 DEF Onward, SamePromise
<1>6. IsSettled(u, "root") <=> IsSettled(t, "root")
  BY <1>1, <1>4 DEF SamePromise, IsSettled
<1>7. ASSUME plan \in Promised \/ "JoinAndReceiveIndex" \in Node, IsKept(u, o)
      PROVE  IsKept(t, o)
  <2>1. o \in Leaves /\ o \in Node /\ Task[o].cancel = "rejects"
    BY <1>7, OpeningIs
  <2>2. CASE o \notin C
    BY <1>3, <1>7, <2>1, <2>2 DEF IsKept
  <2>3. CASE o \in C /\ ~Waiting(t, o)
    BY <1>3, <1>7, <2>1, <2>3 DEF SamePromise
  <2>4. CASE o \in C /\ Waiting(t, o)
    <3>1. u[o].promise = "broken"
      BY <2>1, <2>4 DEF Cancels, Unanswered
    <3> QED  BY <1>7, <3>1 DEF IsKept
  <2> QED  BY <2>2, <2>3, <2>4
<1>8. ASSUME plan \in Promised
      PROVE  /\ IsKept(u, "open") => IsKept(t, "open")
             /\ ~None(u, "open") => ~None(t, "open")
  BY <1>1, <1>3, <1>4, <1>8, EarlyIs DEF SamePromise
<1>9. ASSUME plan \in Promised, None(t, "root")
      PROVE  /\ \A d \in Node \ Early : u[d] = t[d]
             /\ IsCanceled(u, "open") => IsCanceled(t, "open")
             /\ IsCanceled(u, "openTimeout") => IsCanceled(t, "openTimeout")
  <2>1. C \subseteq {o}
    BY <1>9, EarlyCanceled
  <2>2. \A d \in Node \ {o} : u[d] = t[d]
    BY <1>3, <2>1
  <2>3. "open" \in Node /\ "openTimeout" \in Node
    BY <1>9, EarlyIs DEF Early
  <2> QED  BY <2>2, <2>3 DEF Early, IsCanceled
<1>10. ASSUME plan \notin Promised, "JoinAndReceiveIndex" \in Node, Waiting(u, "Signaling")
       PROVE  Waiting(t, "Signaling")
  BY <1>4, <1>10, OthersAre DEF SamePromise
<1>11. plan \in Promised /\ Waiting(t, "root") => Ahead
  BY <1>2, QuietAhead DEF IInv, Connection
<1>12. NothingBegins
  <2>1. \A d \in Node : Waiting(u, d) => Waiting(t, d)
    BY <1>2, CanceledAre
  <2> QED  BY <2>1 DEF NothingBegins
<1> QED  BY <1>2, <1>5, <1>6, <1>7, <1>8, <1>9, <1>10, <1>11, <1>12 DEF Inner

(* So is a timeout. *)
LEMMA TimeoutInner ==
  ASSUME IInv, plan \in DOMAIN Plan, NEW g \in Groups, TimeoutReached(g)
  PROVE  CoreInv' /\ Inner /\ NothingBegins
<1> DEFINE t == tasks  u == tasks'  n == HeadOf(g)  C == Canceled(n, tasks)
<1>1. Core(t, ticks, timers) /\ TreeInv(t) /\ TickInv(t, ticks) /\ TimerInv(t, timers)
  BY DEF IInv, CoreInv, Core
<1>2. /\ Quiet /\ Due(g) /\ timers' = Without(g) /\ Cancel(n, ticks)
      /\ UNCHANGED <<plan, line, signalingTask, observed, prestarted, attempts, stops>>
  BY DEF TimeoutReached, HeadOf, connectionVars
<1>3. Kind(g) = "timeout" /\ Waiting(t, g)
  BY <1>1, <1>2 DEF Due, TimerInv
<1>4. n \in Node /\ n \in ToSet(Sub(g)) /\ n \notin Onces /\ Groups \subseteq Node
  BY <1>3, SubFacts, TreeFacts
<1>5. CanCancel(t, n)
  <2>1. \A x \in Onces : n # HeadOf(x)
    <3> SUFFICES ASSUME NEW x \in Onces, n = HeadOf(x)  PROVE FALSE
      OBVIOUS
    <3>1. x \in Groups /\ Kind(x) = "once"
      BY DEF Onces
    <3>2. n \in ToSet(Sub(x))
      BY <3>1, SubFacts
    <3>3. x = g
      BY <1>4, <3>1, <3>2, TreeFacts
    <3> QED  BY <1>3, <3>1, <3>3
  <2> QED  BY <1>4, <2>1 DEF CanCancel
<1>6. Cancels(t, u, n, C) /\ ticks' = ticks \o Batch(TicksOf(t, C))
  BY <1>1, <1>2, <1>4, CancelIs DEF TicksOf
<1>7. TicksOf(t, C) \in SUBSET Callbacks /\ ticks \in Seq(SUBSET Callbacks)
  BY <1>1, TicksOfIs DEF TickInv
<1>8. TickInv(u, ticks')
  <2>1. ticks' \in Seq(SUBSET Callbacks)
    BY <1>6, <1>7, BatchIs
  <2> DEFINE gone == {}
  <2>2. Ticked(ticks, ticks', gone, TicksOf(t, C))
    BY <1>1, <1>6, <1>7, TicksAdded DEF TickInv
  <2>3. \A x \in Onces : Tick("cancel", x) \notin gone /\ Tick("reject", x) \notin gone
    OBVIOUS
  <2> HIDE DEF C, gone, n
  <2> QED  BY <1>1, <1>4, <1>5, <1>6, <2>1, <2>2, <2>3, CancelTicks
<1>9. Core(u, ticks', timers)
  BY <1>1, <1>4, <1>5, <1>6, <1>8, CoreCancels
<1>10. TimerInv(u, timers')
  <2>1. \A h \in Groups : Waiting(t, h) => Waiting(u, h)
    <3> HIDE DEF C
    <3>1. \A h \in Groups : h \in Node /\ h \notin Leaves
      BY <1>4 DEF Leaves
    <3> QED  BY <1>1, <1>4, <1>6, <3>1, CanceledAre DEF SamePromise
  <2> QED  BY <1>1, <1>2, <2>1, TimersStopped
<1>11. CoreInv'
  <2>1. Core(u, ticks', timers')
    BY <1>9, <1>10 DEF Core
  <2> QED  BY <1>2, <2>1, PlanStays DEF CoreInv
<1>12. C \cap Onces = {} => ticks' = ticks
  <2>1. C \cap Onces = {} => TicksOf(t, C) = {}
    BY DEF TicksOf
  <2> QED  BY <1>6, <1>7, <2>1, BatchIs
<1>13. None(t, "root") => plan \in Promised /\ g = "openTimeout"
  <2> SUFFICES ASSUME None(t, "root")  PROVE plan \in Promised /\ g = "openTimeout"
    OBVIOUS
  <2>1. \A d \in Node : (plan \in Promised => d \notin Early) => t[d] = New
    BY DEF IInv, Connection, BeforeStart
  <2>2. t[g] # New
    BY <1>3 DEF Waiting, New
  <2>3. plan \in Promised /\ g \in Early
    BY <1>4, <2>1, <2>2
  <2> QED  BY <1>3, <2>3, EarlyIs DEF Early, Leaves
<1>14. None(t, "root") => n = "OpenSignalingConnection" /\ ticks' = ticks
  <2> SUFFICES ASSUME None(t, "root")  PROVE n = "OpenSignalingConnection" /\ ticks' = ticks
    OBVIOUS
  <2>0. plan \in Promised /\ g = "openTimeout"
    BY <1>13
  <2>1. n = "OpenSignalingConnection"
    <3>1. ToSet(Sub(g)) = {"OpenSignalingConnection"}
      BY <2>0, EarlyIs
    <3> QED  BY <1>4, <3>1
  <2>2. C \subseteq {"OpenSignalingConnection"}
    BY <1>6, <1>13, <2>1, EarlyCanceled
  <2>3. "OpenSignalingConnection" \notin Onces
    BY <1>13, OpeningIs
  <2> QED  BY <1>12, <2>1, <2>2, <2>3
<1>15. plan \notin Promised => ~None(t, "root") /\ ticks' = ticks
  BY <1>12, <1>13, OthersAre
<1> HIDE DEF C
<1>16. Inner /\ NothingBegins
  BY <1>2, <1>4, <1>6, <1>14, <1>15, CancelInner
<1> QED  BY <1>11, <1>16

(* So is a callback of a cancellation (AsyncScheduler). *)
LEMMA NextTickInner ==
  ASSUME IInv, plan \in DOMAIN Plan, NextTick
  PROVE  CoreInv' /\ Inner /\ NothingBegins
<1> DEFINE t == tasks  u == tasks'
<1>1. Core(t, ticks, timers) /\ TreeInv(t) /\ TickInv(t, ticks)
  BY DEF IInv, CoreInv, Core
<1>2. /\ Quiet /\ ticks # <<>> /\ UNCHANGED timers
      /\ UNCHANGED <<plan, line, signalingTask, observed, prestarted, attempts, stops>>
  BY DEF NextTick, connectionVars
<1>3. plan \in Promised /\ ~None(t, "root")
  BY <1>2 DEF IInv, Connection, Local, BeforeStart
<1>4. PICK tick \in Head(ticks) :
        LET others == Head(ticks) \ {tick}
            remaining == Batch(others) \o Tail(ticks)
        IN /\ \A other \in others : Sooner(tick, other)
           /\ IF tick.call = "cancel"
              THEN Cancel(Head(Sub(tick.on)), remaining)
              ELSE /\ ticks' = remaining
                   /\ tasks' = IF Pending(tick.on)
                               THEN [tasks EXCEPT ![tick.on].promise = "broken"] ELSE tasks
  BY DEF NextTick
<1>5. CASE tick.call = "cancel"
  <2> DEFINE x == tick.on
             n == HeadOf(x)
             C == Canceled(n, tasks)
             left == Batch(Head(ticks) \ {tick}) \o Tail(ticks)
             gone == {tick}
  <2>1. /\ x \in Onces /\ tick = Tick("cancel", x) /\ IsCanceled(t, x)
    <3>1. ticks \in Seq(SUBSET Callbacks) /\ 1 \in DOMAIN ticks /\ Head(ticks) = ticks[1]
      BY <1>1, <1>2 DEF TickInv
    <3>2. tick \in Callbacks /\ IsCanceled(t, tick.on)
      BY <1>1, <3>1 DEF TickInv
    <3> QED  BY <1>5, <3>2 DEF Callbacks, Tick
  <2>2. x \in Groups /\ Kind(x) = "once"
    BY <2>1 DEF Onces
  <2>3. n \in Node /\ n \in ToSet(Sub(x)) /\ n \notin Onces /\ Groups \subseteq Node
    BY <2>2, SubFacts, TreeFacts
  <2>4. CanCancel(t, n)
    <3> SUFFICES ASSUME NEW y \in Onces, n = HeadOf(y), Dependencies(y) = {}  PROVE ~None(t, n)
      BY <2>3 DEF CanCancel
    <3>1. y \in Groups /\ Kind(y) = "once"
      BY DEF Onces
    <3>2. n \in ToSet(Sub(y))
      BY <3>1, SubFacts
    <3>3. y = x
      BY <2>2, <2>3, <3>1, <3>2, TreeFacts
    <3>4. StatusOf(t, y) /\ y \in Node
      BY <1>1, <2>3, <3>1 DEF TreeInv
    <3>5. ~None(t, y)
      BY <2>1, <3>3, <3>4 DEF StatusOf
    <3> QED  BY <1>1, <1>2, <3>1, <3>5, QuietIs
  <2>5. Cancel(n, left)
    BY <1>4, <1>5 DEF HeadOf
  <2>6. Cancels(t, u, n, C) /\ ticks' = left \o Batch(TicksOf(t, C))
    BY <1>1, <2>3, <2>5, CancelIs DEF TicksOf
  <2>7. TicksOf(t, C) \in SUBSET Callbacks
    BY TicksOfIs
  <2>8. ticks' \in Seq(SUBSET Callbacks) /\ Ticked(ticks, ticks', gone, TicksOf(t, C))
    BY <1>1, <1>2, <2>6, <2>7, TicksRun
  <2>9. \A y \in Onces : /\ Tick("cancel", y) \in gone => n = HeadOf(y)
                         /\ Tick("reject", y) \notin gone
    BY <2>1 DEF Tick
  <2> HIDE DEF C, gone, n, left
  <2>10. TickInv(u, ticks')
    BY <1>1, <2>3, <2>4, <2>6, <2>8, <2>9, CancelTicks
  <2>11. Core(u, ticks', timers)
    BY <1>1, <2>3, <2>4, <2>6, <2>10, CoreCancels
  <2>12. CoreInv'
    BY <1>2, <2>11, PlanStays DEF CoreInv
  <2>13. Inner /\ NothingBegins
    BY <1>2, <1>3, <2>3, <2>6, CancelInner
  <2> QED  BY <2>12, <2>13
<1>6. CASE tick.call # "cancel"
  <2>1. /\ ticks' = Batch(Head(ticks) \ {tick}) \o Tail(ticks)
        /\ tasks' = IF Pending(tick.on)
                    THEN [tasks EXCEPT ![tick.on].promise = "broken"] ELSE tasks
        /\ \A other \in Head(ticks) \ {tick} : Sooner(tick, other)
    BY <1>4, <1>6
  <2>2. /\ Core(tasks', ticks', timers) /\ tick.on \in Onces
        /\ \/ tasks' = tasks
           \/ Waiting(tasks, tick.on) /\ Settles(tasks, tasks', tick.on, "broken")
    BY <1>1, <1>2, <1>6, <2>1, CoreReject
  <2>3. CoreInv'
    BY <1>2, <2>2, PlanStays DEF CoreInv
  <2>4. CASE tasks' = tasks
    <3>1. Inner /\ NothingBegins
      BY <1>2, <1>3, <2>4, StillInner
    <3> QED  BY <2>3, <3>1
  <2>5. CASE Waiting(tasks, tick.on) /\ Settles(tasks, tasks', tick.on, "broken")
    <3> DEFINE n == tick.on
    <3>1. n \in Node /\ n # "root" /\ n # "OpenSignalingConnection"
      <4>1. n \in Groups /\ Kind(n) = "once"
        BY <2>2 DEF Onces
      <4>2. "root" \in Plain /\ Groups \subseteq Node
        BY TreeFacts
      <4>3. "OpenSignalingConnection" \notin Groups
        BY <1>3, OpeningIs DEF Leaves
      <4> QED  BY <4>1, <4>2, <4>3 DEF Plain
    <3>2. LineSettles(n, "broken")
      BY <1>2, <3>1 DEF LineSettles, IInv, Scalars
    <3>3. Waiting(tasks, "root") => Ahead
      BY <1>1, <1>2, <1>3, QuietAhead DEF IInv, Connection
    <3>4. signalingTask' = (signalingTask /\ n # "root")
      BY <1>2, <3>1 DEF IInv, Scalars
    <3> HIDE DEF n
    <3>5. Waiting(tasks, n) /\ Settles(tasks, tasks', n, "broken")
      BY <2>5 DEF n
    <3>6. Inner /\ NothingBegins
      BY <1>2, <1>3, <3>1, <3>2, <3>3, <3>4, <3>5, SettleInner
    <3> QED  BY <2>3, <3>6
  <2> QED  BY <2>2, <2>4, <2>5
<1> QED  BY <1>5, <1>6
-----------------------------------------------------------------------------
(* The early connection and the operation as a whole. *)

(* The tasks, and what follows from them alone, stay. *)
LEMMA TasksStay ==
  ASSUME IInv, plan \in DOMAIN Plan, UNCHANGED <<plan, tasks, timers, ticks>>
  PROVE  /\ CoreInv' /\ Node' = Node /\ Leaves' = Leaves
         /\ \A n : /\ None(tasks', n) <=> None(tasks, n)
                   /\ Waiting(tasks', n) <=> Waiting(tasks, n)
                   /\ IsKept(tasks', n) <=> IsKept(tasks, n)
                   /\ IsSettled(tasks', n) <=> IsSettled(tasks, n)
                   /\ IsCanceled(tasks', n) <=> IsCanceled(tasks, n)
         /\ Cascade' /\ AllBegun'
<1>1. CoreInv'
  BY PlanStays DEF IInv, CoreInv
<1>2. Node' = Node /\ Leaves' = Leaves /\ \A x \in Alone : HeadOf(x)' = HeadOf(x)
  BY PlanStays DEF HeadOf, Sub
<1>3. \A n : /\ None(tasks', n) <=> None(tasks, n)
             /\ Waiting(tasks', n) <=> Waiting(tasks, n)
             /\ IsKept(tasks', n) <=> IsKept(tasks, n)
             /\ IsBroken(tasks', n) <=> IsBroken(tasks, n)
             /\ IsSettled(tasks', n) <=> IsSettled(tasks, n)
             /\ IsCanceled(tasks', n) <=> IsCanceled(tasks, n)
  BY DEF None, Waiting, IsKept, IsBroken, IsCanceled, IsSettled
<1>4. Ahead' <=> Ahead
  BY <1>2, <1>3 DEF Ahead
<1>5. Cascade'
  BY <1>2, <1>3, <1>4 DEF IInv, Connection, Cascade
<1>6. AllBegun'
  BY <1>3, <1>4 DEF IInv, Connection, AllBegun
<1> QED  BY <1>1, <1>2, <1>3, <1>5, <1>6

(* prestart()'s then and catch keep the invariant. *)
LEMMA PrestartEndsKeeps ==
  ASSUME IInv, plan \in DOMAIN Plan, PrestartEnds
  PROVE  IInv'
<1>1. /\ prestarted = "pending" /\ IsSettled(tasks, "open")
      /\ prestarted' = "none" /\ observed' = (observed \/ IsKept(tasks, "open"))
      /\ signalingTask' = (signalingTask /\ IsKept(tasks, "open"))
      /\ UNCHANGED <<plan, tasks, timers, ticks, line, attempts, stops>>
  BY NamesAre DEF PrestartEnds, PrestartSettled, IsSettled
<1>2. Scalars /\ Connection /\ TreeInv(tasks) /\ State(tasks)
  BY DEF IInv, CoreInv, Core, TreeInv
<1>3. /\ CoreInv' /\ Node' = Node
      /\ \A n : /\ None(tasks', n) <=> None(tasks, n)
                /\ Waiting(tasks', n) <=> Waiting(tasks, n)
                /\ IsKept(tasks', n) <=> IsKept(tasks, n)
                /\ IsSettled(tasks', n) <=> IsSettled(tasks, n)
                /\ IsCanceled(tasks', n) <=> IsCanceled(tasks, n)
      /\ Cascade' /\ AllBegun'
  BY <1>1, TasksStay
<1>4. plan \in Promised /\ ~None(tasks, "open") /\ (None(tasks, "root") => signalingTask)
  BY <1>1, <1>2 DEF Connection, Prestarted
<1>5. ~observed
  BY <1>1, <1>2 DEF Connection, Watched, Scalars
<1>6. IsKept(tasks, "open") => line = "open"
  <2>1. IsKept(tasks, "open") => IsKept(tasks, "OpenSignalingConnection")
    BY <1>2, <1>4, OpenKept
  <2> QED  BY <1>1, <1>2, <1>4, <2>1 DEF Connection, JustOpened
<1>7. ~IsKept(tasks, "open") => IsSettled(tasks, "openTimeout") \/ IsCanceled(tasks, "openTimeout")
  <2> SUFFICES ASSUME ~IsKept(tasks, "open"), ~IsSettled(tasks, "openTimeout")
               PROVE  IsCanceled(tasks, "openTimeout")
    OBVIOUS
  <2>1. "open" \in Groups /\ HeadOf("open") = "openTimeout" /\ Dependencies("open") = {}
        /\ Kind("open") = "once" /\ "openTimeout" \in Node /\ "open" \in Node
    BY <1>4, EarlyIs, OncesAre DEF Early
  <2>2. HeadPending(tasks, "open") /\ HeadNever(tasks, "open")
    BY <1>2, <2>1 DEF TreeInv, GroupInv
  <2>3. ~Waiting(tasks, "open")
    BY <1>1, <1>2, <2>1, PromiseIs DEF IsSettled
  <2>4. None(tasks, "openTimeout") \/ Waiting(tasks, "openTimeout")
    BY <1>2, <2>1, PromiseIs DEF IsSettled
  <2> QED  BY <1>1, <2>1, <2>2, <2>3, <2>4 DEF HeadPending, HeadNever, IsSettled
<1>8. Scalars'
  BY <1>1, <1>2, <1>5 DEF Scalars, IsKept
<1>9. Local'
  BY <1>1, <1>4 DEF Local
<1>10. BeforeStart'
  BY <1>1, <1>2, <1>3 DEF Connection, BeforeStart
<1>11. Held'
  BY <1>1, <1>2, <1>3 DEF Connection, Held
<1>12. Watched'
  BY <1>1, <1>3, <1>4, <1>5, <1>6 DEF Watched
<1>13. Prestarted'
  BY <1>1 DEF Prestarted
<1>14. TimerHeld'
  <2> SUFFICES ASSUME ~IsSettled(tasks, "openTimeout")
               PROVE  signalingTask' \/ IsSettled(tasks, "root") \/ IsCanceled(tasks, "openTimeout")
    BY <1>1, <1>3 DEF TimerHeld
  <2> QED  BY <1>1, <1>2, <1>4, <1>7 DEF Connection, TimerHeld
<1>15. JustOpened'
  BY <1>1, <1>2, <1>3 DEF Connection, JustOpened
<1>16. HeldLine' /\ JoinLine' /\ OwnLine' /\ Dropped'
  BY <1>1, <1>2, <1>3 DEF Connection, HeldLine, JoinLine, ToJoin, OwnLine, Dropped
<1> QED
  BY <1>3, <1>8, <1>9, <1>10, <1>11, <1>12, <1>13, <1>14, <1>15, <1>16 DEF IInv, Connection

(* The connection closes, or is asked to. *)
LEMMA ConnectionClosesKeeps ==
  ASSUME IInv, plan \in DOMAIN Plan, ConnectionCloses
  PROVE  IInv'
<1>1. /\ Quiet /\ line' = "none" /\ observed' = FALSE
      /\ signalingTask' = (signalingTask /\ ~observed)
      /\ UNCHANGED <<plan, tasks, timers, ticks, prestarted, attempts, stops>>
  BY DEF ConnectionCloses, handleClosed
<1>2. Scalars /\ Connection /\ TreeInv(tasks) /\ State(tasks)
  BY DEF IInv, CoreInv, Core, TreeInv
<1>3. /\ CoreInv' /\ Node' = Node
      /\ \A n : /\ None(tasks', n) <=> None(tasks, n)
                /\ Waiting(tasks', n) <=> Waiting(tasks, n)
                /\ IsKept(tasks', n) <=> IsKept(tasks, n)
                /\ IsSettled(tasks', n) <=> IsSettled(tasks, n)
                /\ IsCanceled(tasks', n) <=> IsCanceled(tasks, n)
      /\ Cascade' /\ AllBegun'
  BY <1>1, TasksStay
<1>4. Scalars'
  BY <1>1, <1>2 DEF Scalars
<1>5. Local' /\ BeforeStart' /\ Watched' /\ Dropped'
  BY <1>1, <1>2, <1>3 DEF Connection, Local, BeforeStart, Watched, Dropped
<1>6. Held'
  BY <1>1, <1>2, <1>3 DEF Connection, Held
<1>7. Prestarted'
  BY <1>1, <1>2, <1>3 DEF Connection, Prestarted, Watched
<1>8. TimerHeld'
  <2> SUFFICES ASSUME plan \in Promised, ~None(tasks, "open") \/ ~None(tasks, "root"),
                      ~IsSettled(tasks, "openTimeout")
               PROVE  signalingTask' \/ IsSettled(tasks, "root") \/ IsCanceled(tasks, "openTimeout")
    BY <1>1, <1>3 DEF TimerHeld
  <2>1. ~observed
    <3>1. observed => IsKept(tasks, "openTimeout")
      BY <1>2, OpenKept DEF Connection, Watched
    <3> QED  BY <3>1 DEF IsSettled
  <2> QED  BY <1>1, <1>2, <2>1 DEF Connection, TimerHeld
<1>9. JustOpened'
  <2> SUFFICES ASSUME plan \in Promised, IsKept(tasks, "OpenSignalingConnection"),
                      ~IsSettled(tasks, "open") \/ prestarted = "pending"
               PROVE  FALSE
    BY <1>1, <1>3 DEF JustOpened
  <2> QED  BY <1>1, <1>2, OpenKnown
<1>10. HeldLine'
  <2> SUFFICES ASSUME plan \in Promised, None(tasks, "root"), signalingTask, ~observed,
                      IsKept(tasks, "open")
               PROVE  FALSE
    BY <1>1, <1>3 DEF HeldLine
  <2>1. prestarted = "pending"
    BY <1>2 DEF Connection, Held
  <2>2. IsKept(tasks, "OpenSignalingConnection")
    BY <1>2, OpenKept
  <2> QED  BY <1>1, <1>2, <2>1, <2>2, OpenKnown
<1>11. JoinLine'
  <2> SUFFICES ASSUME plan \in Promised, Waiting(tasks, "root"), IsKept(tasks, "open"), ToJoin
               PROVE  FALSE
    BY <1>1, <1>3 DEF JoinLine, ToJoin
  <2>1. Ahead
    BY <1>1, <1>2, QuietAhead DEF Connection
  <2>2. ~None(tasks, "Signaling") /\ "Signaling" \in Node
    <3>1. "signaling" \in Alone /\ HeadOf("signaling") = "Signaling"
      BY OncesAre DEF Alone
    <3> QED  BY <2>1, <3>1, StartIs, TreeFacts DEF Ahead
  <2>3. Waiting(tasks, "Signaling")
    BY <1>2, <2>2, PromiseIs DEF ToJoin, IsSettled
  <2> QED  BY <1>1, <1>2, <2>3, JoinBegun DEF ToJoin
<1>12. OwnLine'
  <2> SUFFICES ASSUME plan \notin Promised, "JoinAndReceiveIndex" \in Node,
                      Waiting(tasks, "Signaling"), IsKept(tasks, "OpenSignalingConnection"),
                      None(tasks, "JoinAndReceiveIndex")
               PROVE  FALSE
    BY <1>1, <1>3 DEF OwnLine
  <2> QED  BY <1>1, <1>2, OwnJoinBegun
<1> QED
  BY <1>3, <1>4, <1>5, <1>6, <1>7, <1>8, <1>9, <1>10, <1>11, <1>12 DEF IInv, Connection

(* stop() before the start keeps it. *)
LEMMA StopKeeps ==
  ASSUME IInv, plan \in DOMAIN Plan, stopReturningPromise
  PROVE  IInv'
<1>1. /\ Quiet /\ plan \in Promised /\ None(tasks, "root") /\ line' = "closing"
      /\ stops < MaxStops /\ stops' = stops + 1
      /\ UNCHANGED <<plan, tasks, timers, ticks, signalingTask, prestarted, observed, attempts>>
  BY DEF stopReturningPromise, connectionVars, New, None
<1>2. Scalars /\ Connection /\ TreeInv(tasks) /\ State(tasks)
  BY DEF IInv, CoreInv, Core, TreeInv
<1>3. /\ CoreInv' /\ Node' = Node
      /\ \A n : /\ None(tasks', n) <=> None(tasks, n)
                /\ Waiting(tasks', n) <=> Waiting(tasks, n)
                /\ IsKept(tasks', n) <=> IsKept(tasks, n)
                /\ IsSettled(tasks', n) <=> IsSettled(tasks, n)
                /\ IsCanceled(tasks', n) <=> IsCanceled(tasks, n)
      /\ Cascade' /\ AllBegun'
  BY <1>1, TasksStay
<1>4. Scalars'
  BY <1>1, <1>2, BoundsAssumption DEF Scalars
<1>5. Local' /\ BeforeStart' /\ Held' /\ Watched' /\ Dropped' /\ Prestarted'
  BY <1>1, <1>2, <1>3 DEF Connection, Local, BeforeStart, Held, Watched, Dropped, Prestarted
<1>6. TimerHeld'
  BY <1>1, <1>2, <1>3 DEF Connection, TimerHeld
<1>7. JustOpened'
  <2> SUFFICES ASSUME IsKept(tasks, "OpenSignalingConnection"),
                      ~IsSettled(tasks, "open") \/ prestarted = "pending"
               PROVE  FALSE
    BY <1>1, <1>3 DEF JustOpened
  <2> QED  BY <1>1, <1>2, OpenKnown
<1>8. HeldLine' /\ JoinLine' /\ OwnLine'
  BY <1>1, <1>3 DEF HeldLine, JoinLine, OwnLine
<1> QED
  BY <1>3, <1>4, <1>5, <1>6, <1>7, <1>8 DEF IInv, Connection

(* The tasks with which a start begins: new ones, and those of the early       *)
(* connection if the controller holds it.                                       *)
LEMMA HeldTasks ==
  ASSUME IInv, plan \in Promised, Quiet, None(tasks, "root")
  PROVE  /\ Core(WithSignalingTask, ticks, timers) /\ ticks = <<>> /\ attempts < MaxAttempts
         /\ \A n \in Node \ Early : WithSignalingTask[n] = New
         /\ \A n \in Early : WithSignalingTask[n] = IF signalingTask THEN tasks[n] ELSE New
         /\ \A n \in Node : /\ ~IsBroken(WithSignalingTask, n)
                            /\ IsCanceled(WithSignalingTask, n) =>
                                 n \in Leaves /\ ~None(WithSignalingTask, n)
<1> DEFINE t == WithSignalingTask
<1>0. plan \in DOMAIN Plan /\ Early \subseteq Node /\ Groups \subseteq Node
  BY StartIs, EarlyIs, TreeFacts
<1>1. Core(tasks, ticks, timers) /\ TreeInv(tasks) /\ State(tasks) /\ signalingTask \in BOOLEAN
      /\ Connection
  BY DEF IInv, CoreInv, Core, TreeInv, Scalars
<1>2. (\A n \in Node \ Early : tasks[n] = New) /\ ticks = <<>> /\ attempts < MaxAttempts
  BY <1>1 DEF Connection, BeforeStart
<1>3. /\ \A n \in Node \ Early : t[n] = New
      /\ \A n \in Early : t[n] = IF signalingTask THEN tasks[n] ELSE New
  BY <1>0, <1>2 DEF WithSignalingTask, Early
<1>4. State(t)
  <2>1. New \in Record
    BY DEF New, Record
  <2> QED  BY <1>1, <2>1 DEF WithSignalingTask, State
<1> HIDE DEF t
<1>5. Renew(tasks, t)
  BY <1>3, <1>4 DEF Renew
<1>6. TreeInv(t) /\ InputInv(t) /\ TickInv(t, ticks)
  <2>1. TickInv(tasks, <<>>)
    BY <1>1, <1>2 DEF Core
  <2> QED  BY <1>1, <1>2, <1>5, <2>1, RenewKeeps
<1>7. TimerInv(t, timers)
  <2>1. TimerInv(tasks, timers)
    BY <1>1 DEF Core
  <2>2. ASSUME NEW i \in DOMAIN timers  PROVE Waiting(t, timers[i])
    <3> DEFINE g == timers[i]
    <3>1. g \in Groups /\ Kind(g) = "timeout" /\ Waiting(tasks, g)
      BY <2>1 DEF TimerInv
    <3>2. g \in Early
      BY <1>0, <1>2, <3>1 DEF Waiting, New
    <3>3. g = "openTimeout"
      BY <3>1, <3>2, EarlyIs DEF Early, Leaves
    <3>4. signalingTask
      <4>1. ~IsCanceled(tasks, "openTimeout") /\ Waiting(tasks, "open")
            /\ Waiting(tasks, "openTimeout")
        BY <1>1, <3>1, <3>3, OpenWaits
      <4>2. ~None(tasks, "open") /\ ~IsSettled(tasks, "openTimeout") /\ ~IsSettled(tasks, "root")
        BY <4>1 DEF None, Waiting, IsSettled, IsKept, IsBroken
      <4> QED  BY <1>1, <4>1, <4>2 DEF Connection, TimerHeld
    <3> QED  BY <1>3, <3>1, <3>2, <3>4 DEF Waiting
  <2> QED  BY <2>1, <2>2 DEF TimerInv
<1>8. ASSUME NEW n \in Node
      PROVE  ~IsBroken(t, n) /\ (IsCanceled(t, n) => n \in Leaves /\ ~None(t, n))
  <2>1. CASE t[n] = New
    BY <2>1 DEF New, IsBroken, IsCanceled
  <2>2. CASE n \in Early /\ signalingTask
    <3>1. t[n] = tasks[n]
      BY <1>3, <2>2
    <3>2. /\ ~None(tasks, "open") /\ ~IsCanceled(tasks, "open") /\ ~IsCanceled(tasks, "openTimeout")
          /\ prestarted = "pending" \/ IsKept(tasks, "open")
      BY <1>1, <2>2 DEF Connection, Held
    <3>3. ~IsBroken(tasks, "open") /\ ~IsBroken(tasks, "openTimeout")
          /\ ~IsBroken(tasks, "OpenSignalingConnection")
          /\ ~None(tasks, "OpenSignalingConnection")
      <4>1. CASE IsKept(tasks, "open")
        <5>1. IsKept(tasks, "openTimeout") /\ IsKept(tasks, "OpenSignalingConnection")
          BY <1>1, <4>1, OpenKept
        <5> QED  BY <4>1, <5>1 DEF IsKept, IsBroken, None
      <4>2. CASE prestarted = "pending"
        <5>1. ~IsSettled(tasks, "open")
          BY <4>2, NamesAre DEF Quiet, PrestartSettled, IsSettled
        <5>2. Waiting(tasks, "open")
          BY <1>0, <1>1, <3>2, <5>1, PromiseIs DEF IsSettled, Early
        <5>3. Waiting(tasks, "openTimeout") /\ Waiting(tasks, "OpenSignalingConnection")
          BY <1>1, <5>2, OpenWaits
        <5> QED  BY <5>2, <5>3 DEF Waiting, IsBroken, None
      <4> QED  BY <3>2, <4>1, <4>2
    <3>4. n = "open" \/ n = "openTimeout" \/ n = "OpenSignalingConnection"
      BY <2>2 DEF Early
    <3>5. ~IsBroken(tasks, n)
          /\ (IsCanceled(tasks, n) => n = "OpenSignalingConnection" /\ ~None(tasks, n))
      BY <3>2, <3>3, <3>4
    <3> QED  BY <3>1, <3>5, EarlyIs DEF IsBroken, IsCanceled, None
  <2> QED  BY <1>3, <2>1, <2>2
<1> QED  BY <1>2, <1>3, <1>6, <1>7, <1>8 DEF Core, t

(* prestart() keeps it, and begins the early connection alone. *)
LEMMA PrestartKeeps ==
  ASSUME IInv, plan \in DOMAIN Plan, prestart
  PROVE  IInv' /\ \A n \in Node \ Early : tasks'[n] = New
<1> DEFINE t == WithSignalingTask  u == tasks'  R == Reached("open", t)
<1>1. /\ plan \in Promised /\ None(tasks, "root") /\ prestarted = "none" /\ ~signalingTask /\ Quiet
      /\ Run("open", t) /\ signalingTask' = TRUE /\ prestarted' = "pending"
      /\ UNCHANGED <<plan, ticks, observed, attempts, stops>>
  BY DEF prestart, None, New
<1>2. Scalars /\ Connection
  BY DEF IInv
<1>3. /\ Core(t, ticks, timers) /\ ticks = <<>> /\ attempts < MaxAttempts
      /\ \A n \in Node : t[n] = New
  BY <1>1, HeldTasks
<1>4. "open" \in Node /\ "root" \in Node /\ "root" \notin Early /\ "open" \in Groups
      /\ "OpenSignalingConnection" \in Node /\ "open" \in Early /\ "open" \in Onces
  BY <1>1, EarlyIs, TreeFacts DEF Early, Plain
<1>5. CanRun(t, "open")
  <2>1. None(t, "open")
    BY <1>3, <1>4 DEF None, New
  <2>2. \A g \in Groups : None(t, g)
    BY <1>3, TreeFacts DEF None, New
  <2> QED  BY <2>1, <2>2 DEF CanRun
<1> HIDE DEF t
<1>6. Core(u, ticks, timers') /\ Ran(t, u, "open", R)
  BY <1>1, <1>3, <1>4, <1>5, CoreRun
<1>7. TreeInv(t) /\ \A n \in Node : StatusOf(t, n)
  BY <1>3 DEF Core, TreeInv
<1>8. \A d \in Node : /\ u[d] = t[d] \/ (d \in R /\ Begins(t, u, d))
                      /\ IsCanceled(u, d) <=> IsCanceled(t, d)
  BY <1>4, <1>6, <1>7, RanIs
<1>9. R \subseteq Early /\ Begins(t, u, "open")
  <2>1. R \subseteq Early
    BY <1>1, <1>4, <1>6, EarlyRan
  <2> QED  BY <1>6, <2>1 DEF Ran
<1>10. CoreInv' /\ Node' = Node
  BY <1>1, <1>6, PlanStays DEF CoreInv
<1>11. \A n \in Node \ Early : u[n] = New
  BY <1>3, <1>8, <1>9
<1>12. None(u, "root") /\ ~Waiting(u, "root") /\ ~IsSettled(u, "root")
  BY <1>4, <1>11 DEF None, New, Waiting, IsSettled, IsKept, IsBroken
<1>13. ~None(u, "open") /\ ~IsKept(u, "open") /\ ~IsCanceled(u, "open")
       /\ ~IsCanceled(u, "openTimeout")
  <2>1. \A n \in Node : ~IsCanceled(t, n)
    BY <1>3 DEF IsCanceled, New
  <2> QED  BY <1>1, <1>4, <1>7, <1>8, <1>9, <2>1, BeginsIs, EarlyIs DEF Early
<1>14. ~IsKept(u, "OpenSignalingConnection")
  <2>1. ~IsKept(t, "OpenSignalingConnection")
    BY <1>3, <1>4 DEF IsKept, New
  <2>2. Begins(t, u, "OpenSignalingConnection") => ~IsKept(u, "OpenSignalingConnection")
    BY <1>1, <1>7, NotOpened
  <2> QED  BY <1>4, <1>8, <2>1, <2>2 DEF IsKept
<1>15. ~observed
  BY <1>1, <1>2 DEF Connection, Watched
<1>16. line' \in {line, "opening"}
  BY <1>1, <1>4, <1>7, RunLine
<1>17. Scalars'
  BY <1>1, <1>2, <1>16 DEF Scalars
<1>18. BeforeStart'
  BY <1>1, <1>3, <1>10, <1>11 DEF BeforeStart
<1>19. Local' /\ Held' /\ Watched' /\ Prestarted' /\ TimerHeld'
  BY <1>1, <1>12, <1>13, <1>15 DEF Local, Held, Watched, Prestarted, TimerHeld
<1>20. JustOpened' /\ HeldLine' /\ JoinLine' /\ OwnLine'
  BY <1>1, <1>12, <1>13, <1>14 DEF JustOpened, HeldLine, JoinLine, OwnLine
<1>21. Dropped' /\ Cascade' /\ AllBegun'
  BY <1>12 DEF Dropped, Cascade, AllBegun
<1> QED  BY <1>10, <1>11, <1>17, <1>18, <1>19, <1>20, <1>21 DEF IInv, Connection

(* A start joins after it has opened its connection. *)
LEMMA JoinsLater ==
  ASSUME plan \in DOMAIN Plan, NEW t, NEW u, NEW n \in Node, NEW R, Ran(t, u, n, R),
         "JoinAndReceiveIndex" \in R
  PROVE  n = "JoinAndReceiveIndex"
<1> DEFINE j == "JoinAndReceiveIndex"
<1>1. j \in Node /\ j # "open" /\ j # "OpenSignalingConnection"
  BY DEF Ran
<1>2. "Signaling" \in Groups /\ Kind("Signaling") = "serial" /\ j \in ToSet(Sub("Signaling"))
      /\ HeadOf("Signaling") # j
  <2>1. CASE plan \in Promised
    BY <2>1, StartIs, SubtasksAre
  <2>2. CASE plan \notin Promised
    <3>1. "Signaling" \in Groups /\ Kind("Signaling") = "serial"
          /\ Sub("Signaling")[1] = "OpenSignalingConnection"
          /\ \E k \in DOMAIN Sub("Signaling") : Sub("Signaling")[k] = j
      BY <1>1, <2>2, OthersAre
    <3> QED  BY <1>1, <3>1, SubFacts
  <2> QED  BY <2>1, <2>2
<1>3. ASSUME NEW g \in Groups, j \in RunsFirst(g)  PROVE FALSE
  <2>1. j \in ToSet(Sub(g))
    BY <1>3, RunsFirstIs
  <2>2. g = "Signaling"
    BY <1>1, <1>2, <2>1, TreeFacts
  <2> QED  BY <1>2, <1>3, <2>2, RunsFirstIs
<1> QED  BY <1>3 DEF Ran

(* The operation begins. *)
LEMMA RootRuns ==
  ASSUME plan \in DOMAIN Plan, NEW t, Core(t, ticks, timers), t["root"] = New, Run("root", t),
         UNCHANGED <<plan, ticks>>
  PROVE  /\ CoreInv' /\ Node' = Node /\ Leaves' = Leaves /\ Waiting(tasks', "root")
         /\ ~None(tasks', "root") /\ ~IsSettled(tasks', "root")
         /\ Ran(t, tasks', "root", Reached("root", t))
         /\ line' \in {line, "opening"}
         /\ "JoinAndReceiveIndex" \in Node =>
              tasks'["JoinAndReceiveIndex"] = t["JoinAndReceiveIndex"]
<1>1. "root" \in Node /\ "root" \in Groups /\ "root" \notin Onces
  BY TreeFacts DEF Plain, Onces
<1>2. None(t, "root") /\ ~IsCanceled(t, "root")
  BY DEF None, IsCanceled, New
<1>3. CanRun(t, "root")
  BY <1>2, TreeFacts DEF CanRun
<1>4. Core(tasks', ticks, timers') /\ Ran(t, tasks', "root", Reached("root", t))
  BY <1>1, <1>3, CoreRun
<1>5. StatusOf(t, "root") /\ TreeInv(t)
  BY <1>1 DEF Core, TreeInv
<1>6. Begins(t, tasks', "root")
  BY <1>4 DEF Ran
<1>7. Waiting(tasks', "root")
  BY <1>1, <1>2, <1>5, <1>6, BeginsIs
<1>8. line' \in {line, "opening"}
  BY <1>1, <1>5, RunLine
<1>9. "JoinAndReceiveIndex" \notin Reached("root", t)
  BY <1>1, <1>4, JoinsLater
<1> QED
  BY <1>4, <1>7, <1>8, <1>9, PlanStays DEF Ran, CoreInv, Waiting, None, IsSettled, IsKept, IsBroken

(* The operation begins without an early connection. *)
LEMMA StartKeeps ==
  ASSUME IInv, plan \in DOMAIN Plan, Start, plan \notin Promised
  PROVE  /\ IInv' /\ Waiting(tasks', "root")
         /\ "JoinAndReceiveIndex" \in Node => ~Waiting(tasks', "JoinAndReceiveIndex")
<1> DEFINE t == tasks  u == tasks'  o == "OpenSignalingConnection"
<1>1. /\ t["root"] = New /\ None(t, "root") /\ Run("root", t)
      /\ attempts' = attempts + 1
      /\ UNCHANGED <<plan, ticks, signalingTask, observed, prestarted, stops>>
  BY DEF Start, None, New
<1>2. Scalars /\ Connection /\ Core(t, ticks, timers) /\ TreeInv(t)
  BY DEF IInv, CoreInv, Core
<1>3. (\A n \in Node : t[n] = New) /\ attempts < MaxAttempts
      /\ ~signalingTask /\ ~observed /\ prestarted = "none" /\ ticks = <<>>
  BY <1>1, <1>2 DEF Connection, BeforeStart, Local
<1>4. /\ CoreInv' /\ Node' = Node /\ Waiting(u, "root") /\ ~None(u, "root")
      /\ ~IsSettled(u, "root")
      /\ Ran(t, u, "root", Reached("root", t)) /\ line' \in {line, "opening"}
      /\ "JoinAndReceiveIndex" \in Node => u["JoinAndReceiveIndex"] = t["JoinAndReceiveIndex"]
  BY <1>1, <1>2, RootRuns
<1>5. Scalars'
  BY <1>1, <1>2, <1>3, <1>4, BoundsAssumption DEF Scalars
<1>6. OwnLine'
  <2> SUFFICES ASSUME "JoinAndReceiveIndex" \in Node, IsKept(u, o)  PROVE FALSE
    BY <1>1, <1>4 DEF OwnLine
  <2>1. o \in Node /\ "root" \in Node
    BY OpeningIs, TreeFacts DEF Plain
  <2>2. u[o] = t[o] \/ Begins(t, u, o)
    BY <1>2, <1>4, <2>1, RanIs
  <2>3. ~IsKept(t, o)
    BY <1>3, <2>1 DEF IsKept, New
  <2> QED  BY <1>2, <2>2, <2>3, NotOpened DEF IsKept
<1>7. Local' /\ BeforeStart' /\ Held' /\ Watched' /\ Prestarted' /\ TimerHeld' /\ JustOpened'
  BY <1>1, <1>3, <1>4
  DEF Local, BeforeStart, Held, Watched, Prestarted, TimerHeld, JustOpened
<1>8. HeldLine' /\ JoinLine' /\ Dropped' /\ Cascade' /\ AllBegun'
  BY <1>1, <1>3, <1>4 DEF HeldLine, JoinLine, Dropped, Cascade, AllBegun
<1>9. "JoinAndReceiveIndex" \in Node => ~Waiting(u, "JoinAndReceiveIndex")
  BY <1>3, <1>4 DEF Waiting, New
<1> QED  BY <1>4, <1>5, <1>6, <1>7, <1>8, <1>9 DEF IInv, Connection

(* It begins with one, or with a new one. *)
LEMMA PromisedStartKeeps ==
  ASSUME IInv, plan \in DOMAIN Plan, Start, plan \in Promised
  PROVE  /\ IInv' /\ Waiting(tasks', "root")
         /\ "JoinAndReceiveIndex" \in Node => ~Waiting(tasks', "JoinAndReceiveIndex")
<1> DEFINE t == WithSignalingTask  u == tasks'  o == "OpenSignalingConnection"
           R == Reached("root", t)
<1>1. /\ None(tasks, "root") /\ Quiet /\ Run("root", t)
      /\ observed' = FALSE /\ signalingTask' = TRUE /\ attempts' = attempts + 1
      /\ UNCHANGED <<plan, ticks, prestarted, stops>>
  BY DEF Start, None, New
<1>2. Scalars /\ Connection /\ TreeInv(tasks) /\ State(tasks)
  BY DEF IInv, CoreInv, Core, TreeInv
<1>3. /\ Core(t, ticks, timers) /\ ticks = <<>> /\ attempts < MaxAttempts
      /\ \A n \in Node \ Early : t[n] = New
      /\ \A n \in Early : t[n] = IF signalingTask THEN tasks[n] ELSE New
      /\ \A n \in Node : /\ ~IsBroken(t, n)
                         /\ IsCanceled(t, n) => n \in Leaves /\ ~None(t, n)
  BY <1>1, HeldTasks
<1> HIDE DEF t
<1>4. "open" \in Node /\ "root" \in Node /\ "root" \notin Early /\ "open" \in Groups
      /\ o \in Node /\ "open" \in Early /\ o \in Early
  BY EarlyIs, TreeFacts DEF Early, Plain
<1>5. /\ CoreInv' /\ Node' = Node /\ Leaves' = Leaves /\ Waiting(u, "root")
      /\ ~None(u, "root") /\ ~IsSettled(u, "root")
      /\ Ran(t, u, "root", R) /\ line' \in {line, "opening"}
      /\ "JoinAndReceiveIndex" \in Node => u["JoinAndReceiveIndex"] = t["JoinAndReceiveIndex"]
  <2>1. t["root"] = New
    BY <1>3, <1>4
  <2> QED  BY <1>1, <1>3, <2>1, RootRuns
<1>6. TreeInv(t) /\ \A n \in Node : StatusOf(t, n)
  BY <1>3 DEF Core, TreeInv
<1>7. \A d \in Node : /\ u[d] = t[d] \/ (d \in R /\ Begins(t, u, d))
                      /\ IsCanceled(u, d) <=> IsCanceled(t, d)
                      /\ ~None(t, d) => u[d] = t[d]
  BY <1>4, <1>5, <1>6, RanIs
<1>8. ~signalingTask => None(t, "open") /\ ~IsKept(t, "open") /\ ~IsKept(t, o)
  BY <1>3, <1>4 DEF None, IsKept, New
<1>9. IsKept(u, o) => IsKept(t, o)
  <2>1. Begins(t, u, o) => ~IsKept(u, o)
    BY <1>6, NotOpened
  <2> QED  BY <1>4, <1>7, <2>1 DEF IsKept
<1>10. IsKept(u, "open") => IsKept(t, "open")
  <2>1. Begins(t, u, "open") => ~IsKept(u, "open")
    BY <1>4, <1>6, BeginsIs
  <2> QED  BY <1>4, <1>7, <2>1 DEF IsKept
<1>11. Scalars'
  <2>1. line' \in {"none", "opening", "open", "closing"}
    BY <1>2, <1>5 DEF Scalars
  <2>2. attempts' \in 0..MaxAttempts
    BY <1>1, <1>2, <1>3, BoundsAssumption DEF Scalars
  <2> QED  BY <1>1, <1>2, <2>1, <2>2 DEF Scalars
<1>12. Local' /\ BeforeStart' /\ Held' /\ Watched' /\ TimerHeld' /\ HeldLine' /\ OwnLine'
       /\ Dropped' /\ AllBegun'
  BY <1>1, <1>5
  DEF Local, BeforeStart, Held, Watched, TimerHeld, HeldLine, OwnLine, Dropped, AllBegun
<1>13. Prestarted'
  <2> SUFFICES ASSUME prestarted = "pending"  PROVE ~None(u, "open")
    BY <1>1, <1>5 DEF Prestarted
  <2>1. ~None(tasks, "open") /\ signalingTask
    BY <1>1, <1>2 DEF Connection, Prestarted
  <2>2. ~None(t, "open")
    BY <1>3, <1>4, <2>1 DEF None
  <2> QED  BY <1>4, <1>7, <2>2 DEF None
<1>14. JustOpened'
  <2> SUFFICES ASSUME IsKept(u, o)  PROVE IsSettled(u, "open") /\ prestarted # "pending"
    BY <1>1 DEF JustOpened
  <2>1. IsKept(t, o) /\ signalingTask
    BY <1>8, <1>9
  <2>2. IsKept(tasks, o) /\ t["open"] = tasks["open"]
    BY <1>3, <1>4, <2>1 DEF IsKept
  <2>3. IsSettled(tasks, "open") /\ prestarted # "pending"
    BY <1>1, <1>2, <2>2, OpenKnown
  <2>4. IsSettled(t, "open") /\ ~None(t, "open")
    BY <2>2, <2>3 DEF IsSettled, IsKept, IsBroken, None
  <2> QED  BY <1>4, <1>7, <2>3, <2>4 DEF IsSettled, IsKept, IsBroken
<1>15. JoinLine'
  <2> SUFFICES ASSUME IsKept(u, "open")  PROVE line' \in {"open", "closing"}
    BY <1>1 DEF JoinLine
  <2>1. IsKept(t, "open") /\ signalingTask
    BY <1>8, <1>10
  <2>2. IsKept(tasks, "open")
    BY <1>3, <1>4, <2>1 DEF IsKept
  <2>3. line \in {"open", "closing"}
    BY <1>1, <1>2, <2>1, <2>2 DEF Connection, HeldLine
  <2>4. ~None(t, o)
    <3>1. IsKept(t, o)
      BY <1>6, <2>1, OpenKept
    <3> QED  BY <3>1 DEF IsKept, None
  <2>5. line' = line
    BY <1>1, <1>4, <1>6, <2>4, RunLine
  <2> QED  BY <2>3, <2>5
<1>16. Cascade'
  <2> SUFFICES ASSUME NEW y \in Node
               PROVE  ~IsBroken(u, y) /\ (IsCanceled(u, y) => y \in Leaves /\ ~None(u, y))
    BY <1>5 DEF Cascade
  <2>1. Begins(t, u, y) => ~IsBroken(u, y)
    BY <1>3, <1>6, BeginsIs
  <2> QED  BY <1>3, <1>7, <2>1 DEF IsBroken, None
<1>17. "JoinAndReceiveIndex" \in Node => ~Waiting(u, "JoinAndReceiveIndex")
  BY <1>3, <1>5 DEF Waiting, New, Early
<1> QED  BY <1>5, <1>11, <1>12, <1>13, <1>14, <1>15, <1>16, <1>17 DEF IInv, Connection

(* No timer runs when the operation does not. *)
LEMMA TimersGone ==
  ASSUME plan \in Promised, TreeInv(tasks), TimerInv(tasks, timers), ~Waiting(tasks, "root"),
         ~Waiting(tasks, "openTimeout")
  PROVE  timers = <<>>
<1>1. ASSUME NEW i \in DOMAIN timers  PROVE FALSE
  <2>1. timers[i] \in Groups /\ Kind(timers[i]) = "timeout" /\ Waiting(tasks, timers[i])
    BY DEF TimerInv
  <2>2. timers[i] \notin Onces
    BY <2>1 DEF Onces
  <2>3. Groups \subseteq {"root", "monitor", "connectionTimeout", "Peer", "subscribeAck", "ice",
           "setLocalDescription", "createSDP", "attachMediaInput", "createPeerConnection",
           "receiveAudioInput", "signaling", "Signaling", "open", "openTimeout",
           "presenceTimeout", "FinalizeConnection"}
    BY StartIs
  <2>4. Kind("Signaling") = "serial" /\ ("FinalizeConnection" \in Groups => "presenceTimeout" \in Groups)
    BY StartIs
  <2>5. ~Waiting(tasks, "connectionTimeout") /\ ~Waiting(tasks, "Peer")
        /\ ("presenceTimeout" \in Groups =>
              ~Waiting(tasks, "presenceTimeout") /\ ~Waiting(tasks, "FinalizeConnection"))
    BY WaitsAfter
  <2>6. timers[i] \in {"root", "connectionTimeout", "Peer", "Signaling", "openTimeout",
                       "presenceTimeout", "FinalizeConnection"}
    <3> DEFINE g == timers[i]
    <3>1. g \in Groups /\ g \notin Onces
      BY <2>1, <2>2
    <3> HIDE DEF g
    <3>2. g \in {"root", "connectionTimeout", "Peer", "Signaling", "openTimeout",
                 "presenceTimeout", "FinalizeConnection"}
      BY <2>3, <3>1, OncesAre
    <3> QED  BY <3>2 DEF g
  <2>7. timers[i] # "Signaling"
    BY <2>1, <2>4
  <2> QED  BY <2>1, <2>4, <2>5, <2>6, <2>7
<1>2. timers \in Seq(Groups)
  BY DEF TimerInv
<1>3. timers # <<>> => 1 \in DOMAIN timers
  <2>1. timers # <<>> => Len(timers) \in Nat \ {0}
    BY <1>2, EmptySeq
  <2> QED  BY <1>2, <2>1
<1> QED  BY <1>1, <1>3

(* A retry begins anew, when all that waits was left behind. *)
LEMMA RetryKeeps ==
  ASSUME IInv, plan \in DOMAIN Plan, Retry
  PROVE  IInv' /\ None(tasks', "root") /\ \A n \in Node : Waiting(tasks', n) => Waiting(tasks, n)
<1> DEFINE u == tasks'  o == "OpenSignalingConnection"
<1>1. /\ plan \in Promised /\ IsBroken(tasks, "root") /\ ticks = <<>> /\ attempts < MaxAttempts
      /\ Quiet
      /\ tasks' = [n \in Node |-> IF n \in Early THEN tasks[n] ELSE New]
      /\ IF line = "open"
         THEN line' = "none" /\ observed' = FALSE
              /\ signalingTask' = (signalingTask /\ ~observed)
         ELSE UNCHANGED <<line, observed, signalingTask>>
      /\ UNCHANGED <<plan, timers, ticks, prestarted, attempts, stops>>
  BY DEF Retry, handleClosed, Early, Broken, IsBroken
<1>2. Scalars /\ Connection /\ Core(tasks, ticks, timers) /\ TreeInv(tasks) /\ State(tasks)
  BY DEF IInv, CoreInv, Core, TreeInv
<1>3. "root" \in Node /\ "root" \notin Early /\ Early \subseteq Node /\ "open" \in Groups
      /\ "openTimeout" \in Node /\ "open" \in Early /\ "openTimeout" \in Early /\ o \in Early
  BY <1>1, EarlyIs, TreeFacts DEF Early, Plain
<1>4. /\ IsSettled(tasks, "root") /\ ~Waiting(tasks, "root") /\ ~None(tasks, "root")
  BY <1>1 DEF IsSettled, IsBroken, Waiting, None
<1>5. ~signalingTask /\ ~signalingTask' /\ ~observed'
  <2>1. ~signalingTask
    BY <1>2, <1>4 DEF Connection, Dropped
  <2>2. line # "open" => ~observed
    BY <1>2, <1>4 DEF Connection, Watched
  <2> QED  BY <1>1, <2>1, <2>2
<1>6. ~None(tasks, "Signaling")
  <2>1. Ahead
    BY <1>1, <1>2, <1>4 DEF Connection, AllBegun
  <2> QED  BY <1>1, <2>1, OncesAre DEF Ahead, Alone
<1>7. TickInv(tasks, <<>>) /\ TimerInv(tasks, timers)
  BY <1>1, <1>2 DEF Core
<1>8. ~Waiting(tasks, "open") /\ ~Waiting(tasks, "openTimeout")
  BY <1>1, <1>2, <1>4, <1>6, <1>7, LeftBehind
<1>9. timers = <<>>
  BY <1>1, <1>2, <1>4, <1>7, <1>8, TimersGone
<1>10. State(u)
  <2>1. New \in Record
    BY DEF New, Record
  <2> QED  BY <1>1, <1>2, <2>1 DEF State
<1>11. (\A n \in Node \ Early : u[n] = New) /\ \A n \in Early : u[n] = tasks[n]
  BY <1>1, <1>3
<1>12. Renew(tasks, u)
  BY <1>10, <1>11 DEF Renew
<1>13. Core(u, <<>>, timers)
  <2>1. TreeInv(u) /\ InputInv(u) /\ TickInv(u, <<>>)
    BY <1>1, <1>2, <1>7, <1>12, RenewKeeps
  <2>2. TimerInv(u, timers)
    BY <1>7, <1>9 DEF TimerInv
  <2> QED  BY <2>1, <2>2 DEF Core
<1>14. CoreInv' /\ Node' = Node
  <2>1. Core(u, ticks', timers')
    BY <1>1, <1>13
  <2> QED  BY <1>1, <2>1, PlanStays DEF CoreInv
<1>15. None(u, "root") /\ ~Waiting(u, "root") /\ ~IsSettled(u, "root")
  BY <1>3, <1>11 DEF None, New, Waiting, IsSettled, IsKept, IsBroken
<1>16. prestarted # "pending"
  <2> SUFFICES ASSUME prestarted = "pending"  PROVE FALSE
    OBVIOUS
  <2>1. ~None(tasks, "open")
    BY <1>2 DEF Connection, Prestarted
  <2>2. ~IsSettled(tasks, "open")
    BY <1>1, NamesAre DEF Quiet, PrestartSettled, IsSettled
  <2> QED  BY <1>2, <1>3, <1>8, <2>1, <2>2, PromiseIs DEF IsSettled
<1>17. ~None(u, "open") => IsSettled(u, "openTimeout")
  <2> SUFFICES ASSUME ~None(tasks, "open")  PROVE IsSettled(tasks, "openTimeout")
    BY <1>3, <1>11 DEF None, IsSettled, IsKept, IsBroken
  <2>1. ~None(tasks, "openTimeout")
    <3>1. Kind("open") = "once" /\ Dependencies("open") = {} /\ HeadOf("open") = "openTimeout"
      BY <1>1, EarlyIs, OncesAre
    <3> QED  BY <1>1, <1>2, <1>3, <3>1, QuietIs
  <2> QED  BY <1>2, <1>3, <1>8, <2>1, PromiseIs DEF IsSettled
<1>18. IsKept(u, o) => IsSettled(u, "open")
  <2> SUFFICES ASSUME IsKept(tasks, o)  PROVE IsSettled(tasks, "open")
    BY <1>3, <1>11 DEF IsSettled, IsKept, IsBroken
  <2> QED  BY <1>1, <1>2, OpenKnown
<1>19. Scalars'
  BY <1>1, <1>2 DEF Scalars
<1>20. BeforeStart'
  BY <1>1, <1>11, <1>14 DEF BeforeStart
<1>21. Local' /\ Held' /\ Watched' /\ Prestarted' /\ TimerHeld' /\ JustOpened'
  BY <1>1, <1>5, <1>15, <1>16, <1>17, <1>18
  DEF Local, Held, Watched, Prestarted, TimerHeld, JustOpened
<1>22. HeldLine' /\ JoinLine' /\ OwnLine' /\ Dropped' /\ Cascade' /\ AllBegun'
  BY <1>1, <1>5, <1>15 DEF HeldLine, JoinLine, OwnLine, Dropped, Cascade, AllBegun
<1>23. \A n \in Node : Waiting(u, n) => Waiting(tasks, n)
  BY <1>11 DEF Waiting, New
<1> QED  BY <1>14, <1>15, <1>19, <1>20, <1>21, <1>22, <1>23 DEF IInv, Connection

-----------------------------------------------------------------------------
(* The inductive invariant. *)

(* It holds when no task has begun. *)
LEMMA InitHolds == Init => IInv
<1> SUFFICES ASSUME Init  PROVE IInv
  OBVIOUS
<1>1. /\ plan \in DOMAIN Plan /\ plan \in Operations
      /\ tasks = [n \in Node |-> New] /\ timers = <<>> /\ ticks = <<>>
      /\ line \in {"none", "opening", "open", "closing"}
      /\ signalingTask = FALSE /\ prestarted = "none" /\ observed = FALSE
      /\ attempts = 0 /\ stops = 0
  BY OperationsAssumption DEF Init, Node
<1>2. /\ Groups \subseteq Node /\ "root" \in Node
      /\ \A g \in Groups : ToSet(Sub(g)) \subseteq Node /\ HeadOf(g) \in Node
  BY <1>1, TreeFacts, SubFacts DEF Plain
<1>3. \A n \in Node : tasks[n] = New
  BY <1>1
<1>4. \A n \in Node : /\ None(tasks, n) /\ ~IsCanceled(tasks, n) /\ ~Waiting(tasks, n)
                      /\ StatusOf(tasks, n) /\ ~IsKept(tasks, n) /\ ~IsBroken(tasks, n)
                      /\ ~IsSettled(tasks, n)
  <2>1. \A n \in Node : None(tasks, n) /\ ~IsCanceled(tasks, n) /\ ~Waiting(tasks, n)
                        /\ StatusOf(tasks, n)
    BY <1>3, NewIs
  <2> QED  BY <2>1 DEF None, IsKept, IsBroken, IsSettled
<1>5. State(tasks)
  <2>1. New \in Record
    BY DEF New, Record
  <2> QED  BY <1>1, <2>1 DEF State
<1>6. TreeInv(tasks)
  <2>1. \A g \in Groups : GroupInv(tasks, g)
    BY <1>1, <1>2, <1>4, GroupNew
  <2> QED  BY <1>4, <1>5, <2>1 DEF TreeInv
<1>7. InputInv(tasks)
  <2> SUFFICES ASSUME plan \in Promised
               PROVE  ~IsBroken(tasks, "ReceiveAudioInput") /\ ~IsBroken(tasks, "receiveAudioInput")
    BY DEF InputInv
  <2>1. "ReceiveAudioInput" \in Node /\ "receiveAudioInput" \in Node
    BY <1>2, InputIs DEF Leaves
  <2> QED  BY <1>4, <2>1
<1>8. TickInv(tasks, <<>>)
  <2>1. \A x \in Onces : x \in Node
    BY <1>2 DEF Onces
  <2>2. <<>> \in Seq(SUBSET Callbacks) /\ DOMAIN <<>> = {}
    OBVIOUS
  <2>3. \A x \in Onces : ~IsCanceled(tasks, x)
    BY <1>4, <2>1
  <2> QED  BY <2>2, <2>3 DEF TickInv
<1>9. TimerInv(tasks, <<>>)
  BY DEF TimerInv
<1>10. CoreInv
  BY <1>1, <1>6, <1>7, <1>8, <1>9 DEF CoreInv, Core
<1>11. Scalars
  <2>1. attempts \in 0..MaxAttempts /\ stops \in 0..MaxStops
    BY <1>1, BoundsAssumption
  <2>2. signalingTask \in BOOLEAN /\ observed \in BOOLEAN /\ prestarted \in {"none", "pending"}
    BY <1>1
  <2> QED  BY <1>1, <2>1, <2>2 DEF Scalars
<1>12. plan \in Promised => Early \subseteq Node
  BY EarlyIs
<1>13. BeforeStart
  BY <1>1, <1>3, BoundsAssumption DEF BeforeStart
<1>14. Local /\ Held /\ Watched /\ Prestarted /\ Dropped /\ HeldLine
  BY <1>1 DEF Local, Held, Watched, Prestarted, Dropped, HeldLine
<1>15. TimerHeld /\ JustOpened
  BY <1>2, <1>4, <1>12 DEF TimerHeld, JustOpened, Early
<1>16. JoinLine /\ Cascade /\ AllBegun
  BY <1>2, <1>4 DEF JoinLine, Cascade, AllBegun
<1>17. OwnLine
  <2> SUFFICES ASSUME plan \notin Promised, "JoinAndReceiveIndex" \in Node
               PROVE  ~Waiting(tasks, "Signaling")
    BY DEF OwnLine
  <2>1. "Signaling" \in Groups
    BY <1>1, OthersAre
  <2> QED  BY <1>2, <1>4, <2>1
<1> QED  BY <1>10, <1>11, <1>13, <1>14, <1>15, <1>16, <1>17 DEF IInv, Connection

(* A step within keeps it. *)
LEMMA InnerStep ==
  ASSUME IInv, plan \in DOMAIN Plan, CoreInv', Inner
  PROVE  IInv'
<1>1. TreeInv(tasks')
  <2>1. plan' = plan
    BY DEF Inner
  <2> QED  BY <2>1, PlanStays DEF CoreInv, Core
<1> QED  BY <1>1, InnerKeeps DEF IInv

(* Every step keeps it. *)
LEMMA StepKeeps ==
  ASSUME IInv, [Next]_vars
  PROVE  IInv'
<1>1. plan \in DOMAIN Plan
  BY OperationsAssumption DEF IInv, Scalars
<1>2. CASE FollowUp
  BY <1>1, <1>2, InnerStep, PrestartEndsKeeps, GoOnInner, EndWellInner, EndBadlyInner DEF FollowUp
<1>3. CASE \E n \in Leaves : Answer(n)
  BY <1>1, <1>3, InnerStep, AnswerInner
<1>4. CASE \E n \in Leaves : Failure(n)
  BY <1>1, <1>4, InnerStep, FailureInner
<1>5. CASE \E g \in Groups : TimeoutReached(g)
  BY <1>1, <1>5, InnerStep, TimeoutInner
<1>6. CASE NextTick
  BY <1>1, <1>6, InnerStep, NextTickInner
<1>7. CASE ConnectionCloses \/ stopReturningPromise
  BY <1>1, <1>7, ConnectionClosesKeeps, StopKeeps
<1>8. CASE prestart \/ Start \/ Retry
  BY <1>1, <1>8, PrestartKeeps, StartKeeps, PromisedStartKeeps, RetryKeeps
<1>9. CASE UNCHANGED vars
  <2>1. UNCHANGED <<plan, tasks, timers, ticks, line, signalingTask, prestarted, observed,
                    attempts, stops>>
    BY <1>9 DEF vars, connectionVars
  <2>2. /\ CoreInv' /\ Node' = Node
        /\ \A n : /\ None(tasks', n) <=> None(tasks, n)
                  /\ Waiting(tasks', n) <=> Waiting(tasks, n)
                  /\ IsKept(tasks', n) <=> IsKept(tasks, n)
                  /\ IsSettled(tasks', n) <=> IsSettled(tasks, n)
                  /\ IsCanceled(tasks', n) <=> IsCanceled(tasks, n)
        /\ Cascade' /\ AllBegun'
    BY <1>1, <2>1, TasksStay
  <2>3. Scalars' /\ Local' /\ BeforeStart'
    BY <2>1, <2>2 DEF IInv, Connection, Scalars, Local, BeforeStart
  <2>4. Held' /\ Watched' /\ Prestarted' /\ TimerHeld'
    BY <2>1, <2>2 DEF IInv, Connection, Held, Watched, Prestarted, TimerHeld
  <2>5. JustOpened' /\ HeldLine' /\ JoinLine' /\ OwnLine' /\ Dropped'
    BY <2>1, <2>2 DEF IInv, Connection, JustOpened, HeldLine, JoinLine, OwnLine, Dropped, ToJoin
  <2> QED  BY <2>2, <2>3, <2>4, <2>5 DEF IInv, Connection
<1> QED  BY <1>2, <1>3, <1>4, <1>5, <1>6, <1>7, <1>8, <1>9 DEF Next

(* It holds in every state of a behaviour. *)
THEOREM Invariant == Spec => []IInv
BY InitHolds, StepKeeps, PTL DEF Spec

-----------------------------------------------------------------------------
(* What the invariant says. *)

(* Every variable has a value of its type, and a timer runs for a group that   *)
(* waits (TimeoutTask's finally).                                               *)
THEOREM TypeCorrect == Spec => []TypeOK
<1>1. IInv => TypeOK
  <2> SUFFICES ASSUME IInv  PROVE TypeOK
    OBVIOUS
  <2>1. Scalars /\ State(tasks) /\ TickInv(tasks, ticks) /\ TimerInv(tasks, timers)
    BY DEF IInv, CoreInv, Core, TreeInv
  <2>2. plan \in DOMAIN Plan
    BY <2>1, OperationsAssumption DEF Scalars
  <2>3. tasks \in [Node -> [status : {"idle", "running", "canceled", "finished"},
                            promise : {"none", "pending", "kept", "broken"}]]
    BY <2>1 DEF State, Record
  <2>4. timers \in Seq(Groups)
    BY <2>1 DEF TimerInv
  <2>5. ToSet(timers) \subseteq {n \in Groups : Pending(n)}
    BY <2>1, <2>4 DEF TimerInv, ToSet, Waiting, Pending
  <2>6. ticks \in Seq(SUBSET [call : {"cancel", "reject"}, on : {n \in Node : IsOnce(n)}])
    <3>1. {n \in Node : IsOnce(n)} = Onces
      BY <2>2, TreeFacts DEF IsOnce, Onces
    <3> QED  BY <2>1, <3>1 DEF TickInv, Callbacks
  <2> QED  BY <2>1, <2>3, <2>4, <2>5, <2>6 DEF TypeOK, Scalars
<1> QED  BY <1>1, Invariant, PTL

(* An operation that is over and whose callbacks have run has left only the     *)
(* devices and the senders.                                                      *)
LEMMA OverIs ==
  ASSUME IInv, Over
  PROVE  timers = <<>> /\ \A n \in Leaves : Pending(n) => n \in Deaf
<1>1. /\ plan \in DOMAIN Plan /\ Core(tasks, ticks, timers) /\ Connection
      /\ TreeInv(tasks) /\ State(tasks) /\ TimerInv(tasks, timers)
  BY OperationsAssumption DEF IInv, Scalars, CoreInv, Core, TreeInv
<1>2. /\ IsSettled(tasks, "root") /\ ~Waiting(tasks, "root") /\ ticks = <<>> /\ Quiet
      /\ TickInv(tasks, <<>>)
  <2>1. IsSettled(tasks, "root") /\ ticks = <<>> /\ Quiet
    BY NamesAre DEF Over, IsSettled
  <2>2. ~Waiting(tasks, "root")
    BY <2>1 DEF IsSettled, IsKept, IsBroken, Waiting
  <2> QED  BY <1>1, <2>1, <2>2 DEF Core
<1>3. ASSUME plan \in Promised
      PROVE  timers = <<>> /\ \A n \in Leaves : Pending(n) => n \in Deaf
  <2>1. ~None(tasks, "Signaling")
    <3>1. Ahead
      BY <1>1, <1>2, <1>3 DEF Connection, AllBegun
    <3> QED  BY <1>3, <3>1, OncesAre DEF Ahead, Alone
  <2>2. ~Waiting(tasks, "openTimeout") /\ \A n \in Leaves : Waiting(tasks, n) => n \in Deaf
    BY <1>1, <1>2, <1>3, <2>1, LeftBehind
  <2>3. timers = <<>>
    BY <1>1, <1>2, <1>3, <2>2, TimersGone
  <2> QED  BY <2>2, <2>3, NamesAre
<1>4. ASSUME plan \notin Promised
      PROVE  timers = <<>> /\ \A n \in Leaves : Pending(n) => n \in Deaf
  <2>1. \A n \in Node : ~Waiting(tasks, n)
    BY <1>1, <1>2, <1>4, NothingWaits
  <2>2. timers = <<>>
    <3>1. timers \in Seq(Groups) /\ \A i \in DOMAIN timers : Waiting(tasks, timers[i])
      BY <1>1 DEF TimerInv
    <3>2. \A i \in DOMAIN timers : timers[i] \in Node
      BY <1>1, <3>1, TreeFacts
    <3>3. DOMAIN timers = {}
      BY <2>1, <3>1, <3>2
    <3> QED  BY <3>1, <3>3
  <2> QED  BY <2>1, <2>2, NamesAre DEF Leaves
<1> QED  BY <1>3, <1>4

(* A group that goes on runs one of its tasks. *)
LEMMA GoOnRan ==
  ASSUME IInv, plan \in DOMAIN Plan, NEW g \in Groups, GoOn(g)
  PROVE  \E n \in ToSet(Sub(g)) : \E R :
           /\ CanRun(tasks, n) /\ Ran(tasks, tasks', n, R)
           /\ Goes(g) \/ (GoesOnce(g) /\ n = HeadOf(g))
<1>1. TreeInv(tasks)
  BY DEF IInv, CoreInv, Core
<1>2. UNCHANGED <<plan, ticks, signalingTask, prestarted, observed, attempts, stops>>
  BY DEF GoOn, connectionVars
<1>3. CASE Goes(g) /\ Run(Sub(g)[Position(g) + 1], tasks)
  <2> DEFINE n == Sub(g)[Position(g) + 1]
  <2>1. n \in ToSet(Sub(g)) /\ CanRun(tasks, n)
    BY <1>1, <1>3, GoesCanRun
  <2>2. ~None(tasks, g)
    BY <1>3 DEF Goes, Pending, None
  <2>3. Run(n, tasks)
    BY <1>3
  <2> HIDE DEF n
  <2>4. Ran(tasks, tasks', n, Reached(n, tasks))
    BY <1>2, <2>1, <2>2, <2>3, RunInner
  <2> QED  BY <1>3, <2>1, <2>4
<1>4. CASE GoesOnce(g) /\ Run(Head(Sub(g)), tasks)
  <2>1. HeadOf(g) \in ToSet(Sub(g)) /\ CanRun(tasks, HeadOf(g))
    BY <1>1, <1>4, GoesOnceCanRun
  <2>2. ~None(tasks, g)
    BY <1>4 DEF GoesOnce, None
  <2>3. Run(HeadOf(g), tasks)
    BY <1>4 DEF HeadOf
  <2>4. Ran(tasks, tasks', HeadOf(g), Reached(HeadOf(g), tasks))
    BY <1>2, <2>1, <2>2, <2>3, RunInner
  <2> QED  BY <1>4, <2>1, <2>4
<1> QED  BY <1>3, <1>4 DEF GoOn

(* The groups in series of a start. *)
LEMMA SeriesAre ==
  ASSUME plan \in Promised, NEW g \in Groups, Kind(g) \in {"serial", "each"}
  PROVE  g \in {"root", "Peer", "Signaling"} /\ Kind(g) = "serial"
<1>1. /\ "monitor" \in Onces /\ "subscribeAck" \in Onces /\ "ice" \in Onces
      /\ "setLocalDescription" \in Onces /\ "createSDP" \in Onces /\ "attachMediaInput" \in Onces
      /\ "createPeerConnection" \in Onces /\ "receiveAudioInput" \in Onces
      /\ "signaling" \in Onces /\ "open" \in Onces
  BY OncesAre
<1>2. g \notin Onces
  BY DEF Onces
<1>3. Kind("connectionTimeout") = "timeout" /\ Kind("openTimeout") = "timeout"
  BY StartIs
<1>4. g = "presenceTimeout" => Kind(g) = "timeout"
  BY StartIs
<1>5. g = "FinalizeConnection" => Kind(g) = "parallel"
  BY StartIs
<1>6. Groups \subseteq {"root", "monitor", "connectionTimeout", "Peer", "subscribeAck", "ice",
             "setLocalDescription", "createSDP", "attachMediaInput", "createPeerConnection",
             "receiveAudioInput", "signaling", "Signaling", "open", "openTimeout",
             "presenceTimeout", "FinalizeConnection"}
  BY StartIs
<1>7. g \in {"root", "Peer", "Signaling"}
  BY <1>1, <1>2, <1>3, <1>4, <1>5, <1>6
<1>8. Kind("root") = "serial" /\ Kind("Peer") = "serial" /\ Kind("Signaling") = "serial"
  BY StartIs
<1> QED  BY <1>7, <1>8

(* The task of a OnceTask that has dependencies, or that is done when it        *)
(* returns, is no group.                                                         *)
LEMMA HeadsAre ==
  ASSUME plan \in Promised, NEW g \in Onces, g \notin Alone
  PROVE  HeadOf(g) \in Leaves /\ HeadOf(g) # "open"
<1>1. g \in Groups
  BY DEF Onces
<1>2. HeadOf(g) \in Node
  BY <1>1, StartIs, SubFacts
<1>3. HeadOf(g) \in {"Monitor", "SubscribeAndReceiveSubscribeAck", "FinishGatheringICECandidates",
                     "SetLocalDescription", "CreateSDP", "AttachMediaInput",
                     "CreatePeerConnection"}
  BY OncesAre DEF Alone
<1>4. Groups \subseteq {"root", "monitor", "connectionTimeout", "Peer", "subscribeAck", "ice",
             "setLocalDescription", "createSDP", "attachMediaInput", "createPeerConnection",
             "receiveAudioInput", "signaling", "Signaling", "open", "openTimeout",
             "presenceTimeout", "FinalizeConnection"}
  BY StartIs
<1>5. HeadOf(g) \notin Groups /\ HeadOf(g) # "open"
  BY <1>3, <1>4
<1> QED  BY <1>2, <1>5 DEF Leaves

(* An operation that is over goes on to nothing that waits. *)
LEMMA GoOnOver ==
  ASSUME IInv, plan \in DOMAIN Plan, IsSettled(tasks, "root"), NEW g \in Groups, GoOn(g)
  PROVE  \A d \in Node : Waiting(tasks', d) => Waiting(tasks, d)
<1> DEFINE t == tasks  u == tasks'
<1>1. Connection /\ TreeInv(t) /\ State(t) /\ "root" \in Node /\ g \in Node
  BY TreeFacts DEF IInv, CoreInv, Core, TreeInv, Plain
<1>2. ~Waiting(t, "root")
  BY DEF IsSettled, IsKept, IsBroken, Waiting
<1>a. PICK n \in ToSet(Sub(g)) :
        \E R : /\ CanRun(t, n) /\ Ran(t, u, n, R)
               /\ Goes(g) \/ (GoesOnce(g) /\ n = HeadOf(g))
  BY GoOnRan
<1>3. PICK R : /\ CanRun(t, n) /\ Ran(t, u, n, R)
               /\ Goes(g) \/ (GoesOnce(g) /\ n = HeadOf(g))
  BY <1>a
<1>4. plan \in Promised
  <2>1. ASSUME plan \notin Promised, Goes(g)  PROVE FALSE
    <3>1. Waiting(t, g)
      BY <2>1, NamesAre DEF Goes
    <3> QED  BY <1>1, <1>2, <2>1, <3>1, NothingWaits
  <2>2. ASSUME plan \notin Promised, GoesOnce(g)  PROVE FALSE
    <3>1. g \in Onces
      BY <2>2 DEF GoesOnce, Onces
    <3> QED  BY <2>2, <3>1, OthersAre
  <2> QED  BY <1>3, <2>1, <2>2
<1>5. ~Goes(g)
  <2> SUFFICES ASSUME Goes(g)  PROVE FALSE
    OBVIOUS
  <2>1. Waiting(t, g) /\ Kind(g) \in {"serial", "each"}
        /\ (Kind(g) # "each" => ~IsCanceled(t, g))
    BY NamesAre DEF Goes, IsCanceled
  <2>2. g \in {"root", "Peer", "Signaling"} /\ Kind(g) = "serial"
    BY <1>4, <2>1, SeriesAre
  <2>3. ~Waiting(t, "Peer") /\ (Waiting(t, "Signaling") => IsCanceled(t, "Signaling"))
    BY <1>1, <1>2, <1>4, WaitsAfter
  <2>4. g = "Signaling"
    BY <1>2, <2>1, <2>2, <2>3
  <2> QED  BY <2>1, <2>2, <2>3, <2>4
<1>6. /\ GoesOnce(g) /\ n = HeadOf(g) /\ g \in Onces
      /\ ~None(t, g) /\ None(t, HeadOf(g)) /\ \A d \in Dependencies(g) : IsKept(t, d)
  <2>1. GoesOnce(g) /\ n = HeadOf(g)
    BY <1>3, <1>5
  <2> QED  BY <2>1, NamesAre DEF GoesOnce, Onces, None, HeadOf
<1>7. g \notin Alone
  BY <1>1, <1>4, <1>6 DEF Connection, AllBegun, Ahead
<1>8. ~Waiting(t, g)
  <2>1. /\ ~Waiting(t, "monitor") /\ ~Waiting(t, "subscribeAck") /\ ~Waiting(t, "ice")
        /\ ~Waiting(t, "setLocalDescription") /\ ~Waiting(t, "createSDP")
        /\ ~Waiting(t, "attachMediaInput") /\ ~Waiting(t, "createPeerConnection")
    BY <1>1, <1>2, <1>4, WaitsAfter
  <2>2. g \in {"monitor", "subscribeAck", "ice", "setLocalDescription", "createSDP",
               "attachMediaInput", "createPeerConnection"}
    BY <1>4, <1>6, <1>7, OncesAre DEF Alone
  <2> QED  BY <2>1, <2>2
<1>9. IsKept(t, g) \/ IsBroken(t, g)
  BY <1>1, <1>6, <1>8, PromiseIs
<1>10. IsCanceled(t, n)
  <2>1. HeadNever(t, g) /\ Kind(g) = "once"
    BY <1>1, <1>6 DEF TreeInv, GroupInv, Onces
  <2>2. \A d \in Dependencies(g) : ~IsBroken(t, d)
    BY <1>6 DEF IsKept, IsBroken
  <2> QED  BY <1>6, <1>9, <2>1, <2>2 DEF HeadNever
<1>11. n \in Leaves /\ n # "open"
  BY <1>4, <1>6, <1>7, HeadsAre
<1>12. R = {n}
  BY <1>3, <1>4, <1>11, LeafRan
<1>13. \A d \in Node \ {n} : u[d] = t[d]
  BY <1>3, <1>12 DEF Ran
<1>14. ~Waiting(u, n)
  <2>1. Begins(t, u, n)
    BY <1>3, <1>11, <1>12 DEF Ran
  <2>2. u[n] = [status |-> "canceled", promise |-> "broken"]
    BY <1>10, <2>1 DEF Begins
  <2> QED  BY <2>2 DEF Waiting
<1> QED  BY <1>13, <1>14 DEF Waiting

(* No step of an operation that is over, or of the next attempt, begins to wait. *)
LEMMA OverStep ==
  ASSUME IInv, [Next]_vars, IsSettled(tasks, "root")
  PROVE  \A d \in Node : Waiting(tasks', d) => Waiting(tasks, d)
<1>1. plan \in DOMAIN Plan /\ tasks["root"] # New
  BY OperationsAssumption DEF IInv, Scalars, IsSettled, IsKept, IsBroken, New
<1>2. CASE FollowUp
  BY <1>1, <1>2, GoOnOver, EndWellInner, EndBadlyInner
  DEF FollowUp, PrestartEnds, NothingBegins
<1>3. CASE (\E n \in Leaves : Answer(n)) \/ \E n \in Leaves : Failure(n)
  BY <1>1, <1>3, AnswerInner, FailureInner DEF NothingBegins
<1>4. CASE (\E g \in Groups : TimeoutReached(g)) \/ NextTick
  BY <1>1, <1>4, TimeoutInner, NextTickInner DEF NothingBegins
<1>5. CASE ConnectionCloses \/ stopReturningPromise \/ UNCHANGED vars
  <2>1. tasks' = tasks
    BY <1>5 DEF ConnectionCloses, stopReturningPromise, vars
  <2> QED  BY <2>1
<1>6. CASE prestart \/ Start
  BY <1>1, <1>6 DEF prestart, Start
<1>7. CASE Retry
  BY <1>1, <1>7, RetryKeeps
<1> QED  BY <1>2, <1>3, <1>4, <1>5, <1>6, <1>7 DEF Next

(* No task begins after its operation has ended, and once the callbacks of its  *)
(* cancellation have run nothing of it is left but a device or a sender that    *)
(* has yet to answer, and no timer (OnceTask.cancel, TimeoutTask's finally).    *)
THEOREM NothingLeft == Spec => NothingOutlives
<1> DEFINE Rest == Over => timers = <<>> /\ \A n \in Leaves : Pending(n) => n \in Deaf
           Step == \A n \in Leaves : ~Pending(n) /\ Pending(n)' =>
                     Pending("root") \/ tasks["root"] = New
<1>1. IInv => Rest
  BY OverIs
<1>2. IInv /\ [Next]_vars => Step
  <2> SUFFICES ASSUME IInv, [Next]_vars, NEW n \in Leaves, ~Waiting(tasks, n), Waiting(tasks', n),
                      ~Waiting(tasks, "root"), tasks["root"] # New
               PROVE  FALSE
    BY DEF Pending, Waiting
  <2>1. plan \in DOMAIN Plan /\ Connection /\ State(tasks)
    BY OperationsAssumption DEF IInv, Scalars, CoreInv, Core, TreeInv
  <2>2. "root" \in Node /\ n \in Node
    BY <2>1, TreeFacts DEF Plain, Leaves
  <2>3. ~None(tasks, "root")
    <3>1. plan \in Promised => "root" \notin Early
      BY EarlyIs
    <3> QED  BY <2>1, <2>2, <3>1 DEF Connection, BeforeStart
  <2>4. IsSettled(tasks, "root")
    BY <2>1, <2>2, <2>3, PromiseIs DEF IsSettled
  <2> QED  BY <2>2, <2>4, OverStep
<1> HIDE DEF Rest, Step
<1>3. Spec => []Rest /\ [][Step]_vars
  BY <1>1, <1>2, Invariant, PTL DEF Spec
<1> QED  BY <1>3 DEF Rest, Step, NothingOutlives

(* The group that joins runs it after the connection that it opened, or that    *)
(* was opened in advance.                                                        *)
LEMMA JoinRuns ==
  ASSUME IInv, plan \in DOMAIN Plan, NEW g \in Groups, GoOn(g), "JoinAndReceiveIndex" \in Leaves,
         ~Waiting(tasks, "JoinAndReceiveIndex"), Waiting(tasks', "JoinAndReceiveIndex")
  PROVE  line \in {"open", "closing"}
<1> DEFINE t == tasks  u == tasks'  j == "JoinAndReceiveIndex"  s == "Signaling"
<1>1. Connection /\ TreeInv(t) /\ State(t) /\ j \in Node /\ Groups \subseteq Node
  BY TreeFacts DEF IInv, CoreInv, Core, TreeInv, Leaves
<1>a. PICK n \in ToSet(Sub(g)) :
        \E R : /\ CanRun(t, n) /\ Ran(t, u, n, R)
               /\ Goes(g) \/ (GoesOnce(g) /\ n = HeadOf(g))
  BY GoOnRan
<1>2. PICK R : /\ CanRun(t, n) /\ Ran(t, u, n, R)
               /\ Goes(g) \/ (GoesOnce(g) /\ n = HeadOf(g))
  BY <1>a
<1>3. n \in Node
  BY <1>2, SubFacts
<1>4. n = j
  <2>1. j \in R
    BY <1>1, <1>2 DEF Ran, Waiting
  <2> QED  BY <1>2, <1>3, <2>1, JoinsLater
<1>5. s \in Groups /\ j \in ToSet(Sub(s)) /\ Kind(s) = "serial"
  <2>1. plan \in Promised => s \in Groups /\ j \in ToSet(Sub(s)) /\ Kind(s) = "serial"
    BY SubtasksAre, StartIs
  <2>2. ASSUME plan \notin Promised  PROVE s \in Groups /\ j \in ToSet(Sub(s)) /\ Kind(s) = "serial"
    <3>1. s \in Groups /\ Kind(s) = "serial" /\ \E k \in DOMAIN Sub(s) : Sub(s)[k] = j
      BY <1>1, <2>2, OthersAre
    <3> QED  BY <3>1, SubFacts
  <2> QED  BY <2>1, <2>2
<1>6. g = s
  BY <1>1, <1>2, <1>4, <1>5, TreeFacts
<1>7. None(t, j) /\ Waiting(t, s) /\ ~IsCanceled(t, s)
      /\ \A i, k \in DOMAIN Sub(s) : i < k /\ j = Sub(s)[k] => IsKept(t, Sub(s)[i])
  <2>1. CanRun(t, j)
    BY <1>2, <1>4
  <2>2. Kind(s) # "once" /\ Kind(s) # "each"
    BY <1>5
  <2> QED  BY <1>5, <2>1, <2>2 DEF CanRun
<1>8. ToJoin
  BY <1>7 DEF ToJoin, IsSettled, IsKept, IsBroken, Waiting
<1>9. ASSUME plan \in Promised  PROVE line \in {"open", "closing"}
  <2>1. Waiting(t, "root")
    BY <1>1, <1>7, <1>9, WaitsAfter
  <2>2. IsKept(t, "open")
    <3>1. Sub(s) = <<"open", "ListenForVolumeIndicators", "SendAndReceiveDataMessages",
                     "JoinAndReceiveIndex", "ReceiveTURNCredentials", "ReceiveVideoStreamIndex">>
      BY <1>9, StartIs
    <3>2. 1 \in DOMAIN Sub(s) /\ 4 \in DOMAIN Sub(s) /\ Sub(s)[1] = "open" /\ Sub(s)[4] = j
      BY <3>1
    <3> QED  BY <1>7, <3>2
  <2> QED  BY <1>1, <1>8, <1>9, <2>1, <2>2 DEF Connection, JoinLine
<1>10. ASSUME plan \notin Promised  PROVE line \in {"open", "closing"}
  <2>1. IsKept(t, "OpenSignalingConnection")
    <3>1. /\ Sub(s)[1] = "OpenSignalingConnection"
          /\ \E k \in DOMAIN Sub(s) : k > 1 /\ Sub(s)[k] = j
      BY <1>1, <1>10, OthersAre
    <3>2. DOMAIN Sub(s) = 1..Len(Sub(s)) /\ Len(Sub(s)) \in Nat \ {0}
      BY <1>5, SubFacts
    <3> QED  BY <1>7, <3>1, <3>2
  <2> QED  BY <1>1, <1>7, <1>10, <2>1 DEF Connection, OwnLine
<1> QED  BY <1>9, <1>10

(* A start joins the meeting over a connection that is there, the one opened in *)
(* advance or its own (prestart, preStartObserver, createOrReuseSignalingTask,  *)
(* actionConnect).                                                               *)
THEOREM JoinsOpen == Spec => JoinsOpenConnection
<1> DEFINE Joined == \A n \in Leaves \cap {"JoinAndReceiveIndex"} :
                       ~Pending(n) /\ Pending(n)' => line \in {"open", "closing"}
<1>1. IInv /\ [Next]_vars => Joined
  <2> SUFFICES ASSUME IInv, [Next]_vars, "JoinAndReceiveIndex" \in Leaves,
                      ~Waiting(tasks, "JoinAndReceiveIndex"),
                      Waiting(tasks', "JoinAndReceiveIndex")
               PROVE  line \in {"open", "closing"}
    BY DEF Pending, Waiting
  <2>1. plan \in DOMAIN Plan /\ "JoinAndReceiveIndex" \in Node
    BY OperationsAssumption DEF IInv, Scalars, Leaves
  <2>2. CASE FollowUp
    <3>1. ~PrestartEnds
      BY DEF PrestartEnds, Waiting
    <3>2. \A g \in Groups : ~EndWell(g) /\ ~EndBadly(g)
      BY <2>1, EndWellInner, EndBadlyInner DEF NothingBegins
    <3> QED  BY <2>1, <2>2, <3>1, <3>2, JoinRuns DEF FollowUp
  <2>3. CASE (\E n \in Leaves : Answer(n)) \/ \E n \in Leaves : Failure(n)
    BY <2>1, <2>3, AnswerInner, FailureInner DEF NothingBegins
  <2>4. CASE (\E g \in Groups : TimeoutReached(g)) \/ NextTick
    BY <2>1, <2>4, TimeoutInner, NextTickInner DEF NothingBegins
  <2>5. CASE ConnectionCloses \/ stopReturningPromise \/ UNCHANGED vars
    <3>1. tasks' = tasks
      BY <2>5 DEF ConnectionCloses, stopReturningPromise, vars
    <3> QED  BY <3>1
  <2>6. CASE prestart
    <3>1. tasks'["JoinAndReceiveIndex"] = New
      BY <2>1, <2>6, PrestartKeeps DEF Early
    <3> QED  BY <3>1 DEF Waiting, New
  <2>7. CASE Start
    BY <2>1, <2>7, StartKeeps, PromisedStartKeeps
  <2>8. CASE Retry
    BY <2>1, <2>8, RetryKeeps
  <2> QED  BY <2>2, <2>3, <2>4, <2>5, <2>6, <2>7, <2>8 DEF Next
<1> HIDE DEF Joined
<1>2. Spec => [][Joined]_vars
  BY <1>1, Invariant, PTL DEF Spec
<1> QED  BY <1>2 DEF Joined, JoinsOpenConnection

-----------------------------------------------------------------------------
(* The abstract operation. *)

(* A step within the operation settles its promise at most. *)
LEMMA InnerRoot ==
  ASSUME TreeInv(tasks), State(tasks'), plan \in DOMAIN Plan, Inner
  PROVE  [Op!Next]_(tasks["root"].promise)
<1>1. "root" \in Node /\ State(tasks)
  BY TreeFacts DEF Plain, TreeInv
<1>2. Onward(tasks, tasks')
  BY DEF Inner
<1>3. /\ tasks["root"].promise \in {"none", "pending", "kept", "broken"}
      /\ tasks'["root"].promise \in {"none", "pending", "kept", "broken"}
  BY <1>1 DEF State, Record
<1>4. /\ None(tasks, "root") <=> None(tasks', "root")
      /\ IsKept(tasks, "root") => IsKept(tasks', "root")
      /\ IsBroken(tasks, "root") => IsBroken(tasks', "root")
  BY <1>1, <1>2 DEF Onward
<1> DEFINE p == tasks["root"].promise  q == tasks'["root"].promise
<1>5. \/ q = p
      \/ p = "pending" /\ q \in {"kept", "broken"}
  BY <1>3, <1>4 DEF None, IsKept, IsBroken
<1> QED  BY <1>5 DEF Op!Next, Op!Complete, Op!Fail

(* The operation begins once, and its promise is settled once; only after an    *)
(* attempt that failed another one follows: every step of the tasks is one of   *)
(* the abstract operation, or none.                                              *)
THEOREM StepsImplemented == Spec => Op!Init /\ [][Op!Next]_(tasks["root"].promise)
<1>1. Init => Op!Init
  <2> SUFFICES ASSUME Init  PROVE tasks["root"].promise = "none"
    BY DEF Op!Init
  <2>1. plan \in DOMAIN Plan
    BY OperationsAssumption DEF Init
  <2>2. "root" \in Node
    BY <2>1, TreeFacts DEF Plain
  <2> QED  BY <2>2 DEF Init, Node, New
<1>2. IInv /\ [Next]_vars => [Op!Next]_(tasks["root"].promise)
  <2> SUFFICES ASSUME IInv, [Next]_vars  PROVE [Op!Next]_(tasks["root"].promise)
    OBVIOUS
  <2>1. plan \in DOMAIN Plan /\ TreeInv(tasks)
    BY OperationsAssumption DEF IInv, Scalars, CoreInv, Core
  <2>2. "root" \in Node
    BY <2>1, TreeFacts DEF Plain
  <2>3. ASSUME CoreInv', Inner  PROVE [Op!Next]_(tasks["root"].promise)
    <3>1. State(tasks')
      <4>1. plan' = plan
        BY <2>3 DEF Inner
      <4> QED  BY <2>3, <4>1, PlanStays DEF CoreInv, Core, TreeInv
    <3> QED  BY <2>1, <2>3, <3>1, InnerRoot
  <2>4. CASE tasks' = tasks
    BY <2>4
  <2>5. CASE FollowUp
    BY <2>1, <2>3, <2>4, <2>5, GoOnInner, EndWellInner, EndBadlyInner DEF FollowUp, PrestartEnds
  <2>6. CASE (\E n \in Leaves : Answer(n)) \/ \E n \in Leaves : Failure(n)
    BY <2>1, <2>3, <2>6, AnswerInner, FailureInner
  <2>7. CASE (\E g \in Groups : TimeoutReached(g)) \/ NextTick
    BY <2>1, <2>3, <2>7, TimeoutInner, NextTickInner
  <2>8. CASE ConnectionCloses \/ stopReturningPromise \/ UNCHANGED vars
    <3>1. tasks' = tasks
      BY <2>8 DEF ConnectionCloses, stopReturningPromise, vars
    <3> QED  BY <2>4, <3>1
  <2>9. CASE prestart
    <3>1. plan \in Promised /\ tasks["root"] = New
      BY <2>9 DEF prestart
    <3>2. tasks'["root"] = New
      BY <2>1, <2>2, <2>9, <3>1, EarlyIs, PrestartKeeps
    <3> QED  BY <3>1, <3>2
  <2>10. CASE Start
    <3>1. tasks["root"].promise = "none"
      BY <2>10 DEF Start, New
    <3>2. tasks'["root"].promise = "pending"
      BY <2>1, <2>10, StartKeeps, PromisedStartKeeps DEF Waiting
    <3> QED  BY <3>1, <3>2 DEF Op!Next, Op!Begin
  <2>11. CASE Retry
    <3>1. tasks["root"].promise = "broken"
      BY <2>11 DEF Retry, Broken
    <3>2. tasks'["root"].promise = "none"
      BY <2>1, <2>11, RetryKeeps DEF None
    <3> QED  BY <3>1, <3>2 DEF Op!Next, Op!Retry
  <2> QED  BY <2>5, <2>6, <2>7, <2>8, <2>9, <2>10, <2>11 DEF Next
<1> QED  BY <1>1, <1>2, Invariant, PTL DEF Spec
==============================================================================
