------------------------- MODULE FilteredLokiProofs -------------------------
(***************************************************************************)
(* The gateway implements a filtered Loki, for any number of connections   *)
(* and any deployments, requests and stores.                               *)
(***************************************************************************)
EXTENDS GatewayProofs

Ended == {"replied", "gone", "killed"}

\* What Loki reads for a connection is in the view of its request.
LEMMA ReadsInView ==
    ASSUME IInv, NEW c \in Conn, conn[c].up # << >>
    PROVE  Reads(Up(c)) \subseteq ViewOf(insts, Req(c))
<1>1. /\ Req(c) \in Request /\ Indexed
      /\ Route(Req(c)).status = "forward" /\ Route(Req(c)).up = conn[c].up
  BY DEF IInv, GoodConn, Req
<1>2. PICK up : /\ Route(Req(c)).up = <<up>>
                /\ \A x \in Reads(up) : \E n \in Granted(Req(c)) : MayShow(insts[n], Req(c), x)
  BY <1>1, RouteForwardsInScope DEF Indexed
<1>3. Up(c) = up
  BY <1>1, <1>2 DEF Up
<1> QED
  BY <1>2, <1>3, ReadsFromStore DEF ViewOf, Granted

\* A gateway that has not started is a store that nobody has asked.
LEMMA InitMaps == Init => Filtered!Init
<1> SUFFICES ASSUME Init PROVE Filtered!Init
  OBVIOUS
<1>1. \A c \in Conn : conn[c].req = << >> /\ conn[c].data = {} /\ conn[c].phase = "idle"
  BY DEF Init, Fresh
<1>2. \A c \in Conn : (conn[c].phase \in {"replied", "gone", "killed"}) = FALSE
  BY <1>1
<1>3. /\ [c \in Conn |-> conn[c].req] = [c \in Conn |-> << >>]
      /\ [c \in Conn |-> conn[c].data] = [c \in Conn |-> {}]
  BY <1>1
<1>4. [c \in Conn |-> conn[c].phase \in {"replied", "gone", "killed"}] = [c \in Conn |-> FALSE]
  BY <1>2, Zenon
<1> QED
  BY <1>3, <1>4 DEF Filtered!Init

\* A step of one connection that keeps its request and adds to its data what is
\* in view shows more of the answer, or ends it.
LEMMA StepMaps ==
    ASSUME IInv, NEW c \in Conn, NEW phases, phases \subseteq {"arrived", "body", "sending", "sent", "streaming"},
           NEW new, Step(c, phases, new), new.req = conn[c].req,
           conn[c].data \subseteq new.data, new.data \subseteq ViewOf(insts, Req(c))
    PROVE  Filtered!Next
<1> DEFINE last == new.phase \in Ended
           asked == [d \in Conn |-> conn[d].req]
           shown == [d \in Conn |-> conn[d].data]
           ended == [d \in Conn |-> conn[d].phase \in Ended]
<1>1. /\ insts' = insts /\ conn' = [conn EXCEPT ![c] = new] /\ DOMAIN conn = Conn
      /\ conn[c].phase \in {"arrived", "body", "sending", "sent", "streaming"} /\ conn[c].req # << >>
  BY DEF Step, IInv, GoodConn
<1>2. conn'[c] = new /\ \A d \in Conn \ {c} : conn'[d] = conn[d]
  BY <1>1
<1>3. asked' = asked
  BY <1>2
<1>4. shown' = [shown EXCEPT ![c] = @ \cup new.data]
  <2>1. new.data = conn[c].data \cup new.data
    OBVIOUS
  <2> QED
    BY <1>2, <2>1
<1>5. ended' = [ended EXCEPT ![c] = last]
  BY <1>2
<1>6. Filtered!Pending(c)
  BY <1>1 DEF Filtered!Pending
<1>7. Filtered!Show(c, new.data, last)
  BY <1>1, <1>3, <1>4, <1>5 DEF Filtered!Show, Ended
<1>8. new.data \in SUBSET ViewOf(insts, asked[c][1]) /\ last \in BOOLEAN
  BY DEF Req
<1> QED
  BY <1>6, <1>7, <1>8 DEF Filtered!Next

\* The reply to a request that went to Loki adds to what was shown.
LEMMA ReplyMaps ==
    ASSUME IInv, NEW c \in Conn, NEW phases, NEW status, NEW data,
           conn[c].up # << >>, phases \subseteq {"sending", "sent", "streaming"},
           Step(c, phases, Reply(c, status, {}, data)),
           conn[c].data \subseteq data, data \subseteq Reads(Up(c))
    PROVE  Filtered!Next
<1>1. GoodConn(conn[c])
  BY DEF IInv
<1>2. /\ Reply(c, status, {}, data).req = conn[c].req
      /\ Reply(c, status, {}, data).data = data
  BY <1>1 DEF Reply, GoodConn
<1> QED
  BY <1>2, ReadsInView, StepMaps

\* A change of phase shows nothing, and may be the end.
LEMMA PhaseMaps ==
    ASSUME IInv, NEW c \in Conn, NEW phases, NEW p,
           phases \subseteq {"arrived", "body", "sending", "sent", "streaming"},
           Step(c, phases, [conn[c] EXCEPT !.phase = p])
    PROVE  Filtered!Next
<1> DEFINE new == [conn[c] EXCEPT !.phase = p]
<1>1. GoodConn(conn[c]) /\ new.req = conn[c].req /\ new.data = conn[c].data
  BY DEF IInv, GoodConn
<1>2. conn[c].data \subseteq ViewOf(insts, Req(c))
  BY <1>1, ReadsInView DEF GoodConn, Up
<1> HIDE DEF new
<1> QED
  BY <1>1, <1>2, StepMaps DEF new

\* A handler's step asks, answers at once, or shows nothing.
LEMMA HandlerMaps ==
    ASSUME IInv, NEW c \in Conn,
           (\E req \in Requests : Arrive(c, req)) \/ Serve(c) \/ BodyRead(c) \/ Disconnect(c)
    PROVE  Filtered!Next
<1>1. CASE \E req \in Requests : Arrive(c, req)
  <2>1. PICK req \in Requests : Arrive(c, req)
    BY <1>1
  <2> DEFINE asked == [d \in Conn |-> conn[d].req]
  <2>2. /\ insts' = insts /\ conn[c].phase = "idle" /\ conn[c].req = << >> /\ conn[c].data = {}
        /\ conn'[c] = Fresh("arrived", <<req>>) /\ \A d \in Conn \ {c} : conn'[d] = conn[d]
    BY <2>1 DEF Arrive, Step, IInv, GoodConn
  <2>3. conn'[c].req = <<req>> /\ conn'[c].data = {} /\ conn'[c].phase = "arrived"
    BY <2>2 DEF Fresh
  <2>4. asked' = [asked EXCEPT ![c] = <<req>>]
    BY <2>2, <2>3
  <2>5. \A d \in Conn : conn'[d].data = conn[d].data /\ (conn'[d].phase \in Ended <=> conn[d].phase \in Ended)
    BY <2>2, <2>3 DEF Ended
  <2>6. Filtered!Ask(c, req)
    BY <2>2, <2>4, <2>5 DEF Filtered!Ask, Ended
  <2> QED
    BY <2>1, <2>6 DEF Filtered!Next
<1>2. ASSUME NEW phases \in SUBSET {"arrived", "body"}, Step(c, phases, Decision(c))
      PROVE  Filtered!Next
  <2>1. GoodConn(conn[c]) /\ conn[c].phase \in {"arrived", "body"}
    BY <1>2 DEF IInv, Step
  <2>2. conn[c].data = {} /\ Decision(c).req = conn[c].req /\ Decision(c).data = {}
    BY <2>1 DEF Decision, Reply, GoodConn
  <2> QED
    BY <1>2, <2>2, StepMaps
<1>3. CASE Serve(c)
  BY <1>2, <1>3, PhaseMaps DEF Serve
<1>4. CASE BodyRead(c)
  BY <1>2, <1>4 DEF BodyRead
<1>5. CASE Disconnect(c)
  BY <1>5, PhaseMaps DEF Disconnect
<1> QED
  BY <1>1, <1>3, <1>4, <1>5

\* A step of the exchange with Loki shows a part of the view, ends the answer, or shows nothing.
LEMMA ExchangeMaps ==
    ASSUME IInv, NEW c \in Conn, Exchange(c)
    PROVE  Filtered!Next
<1>1. GoodConn(conn[c]) /\ conn[c].up # << >> /\ conn[c].data \subseteq Reads(Up(c))
  BY DEF IInv, Exchange, GoodConn, Up
<1>2. ASSUME NEW phases \in SUBSET {"sending", "sent", "streaming"}, Step(c, phases, Failure(c)),
             phases \subseteq {"sending", "sent"} \/ ViaMCP(c)
      PROVE  Filtered!Next
  <2>1. conn[c].data = {}
    BY <1>1, <1>2 DEF Step, GoodConn, ViaMCP, Up
  <2> QED
    BY <1>1, <1>2, <2>1, ReplyMaps DEF Failure
<1>3. CASE LokiHeaders(c)
  BY <1>3, PhaseMaps DEF LokiHeaders
<1>4. CASE LokiChunk(c)
  <2>1. PICK x \in Reads(Up(c)) : Step(c, {"streaming"}, [conn[c] EXCEPT !.data = @ \cup {x}])
    BY <1>4 DEF LokiChunk
  <2> DEFINE new == [conn[c] EXCEPT !.data = @ \cup {x}]
  <2>2. new.req = conn[c].req /\ new.data = conn[c].data \cup {x}
    BY <1>1 DEF GoodConn
  <2>3. new.data \subseteq ViewOf(insts, Req(c))
    BY <1>1, <2>1, <2>2, ReadsInView
  <2> HIDE DEF new
  <2> QED
    BY <2>1, <2>2, <2>3, StepMaps DEF new
<1>5. CASE LokiEnd(c)
  <2>1. CASE ViaMCP(c)
    <3>1. PICK streams \in SUBSET Reads(Up(c)) :
             Step(c, {"streaming"},
                  IF Renders(Req(c).call, streams) THEN Reply(c, "200", {}, streams) ELSE Failure(c))
      BY <1>5, <2>1 DEF LokiEnd
    <3>2. conn[c].data = {}
      BY <1>1, <2>1, <3>1 DEF Step, GoodConn, ViaMCP, Up
    <3>3. CASE Renders(Req(c).call, streams)
      BY <1>1, <3>1, <3>2, <3>3, ReplyMaps
    <3>4. CASE ~Renders(Req(c).call, streams)
      BY <1>2, <2>1, <3>1, <3>4
    <3> QED
      BY <3>3, <3>4
  <2>2. CASE ~ViaMCP(c)
    BY <1>1, <1>5, <2>2, ReplyMaps DEF LokiEnd
  <2> QED
    BY <2>1, <2>2
<1>6. CASE LokiRefuses(c)
  <2>1. conn[c].data = {}
    BY <1>1, <1>6 DEF LokiRefuses, Step, GoodConn
  <2> QED
    BY <1>1, <1>6, <2>1, ReplyMaps DEF LokiRefuses
<1>7. CASE UpstreamBreaks(c)
  BY <1>2, <1>7, PhaseMaps DEF UpstreamBreaks
<1>8. CASE Timeout(c)
  BY <1>2, <1>8 DEF Timeout
<1>9. CASE Written(c)
  BY <1>9, PhaseMaps DEF Written
<1> QED
  BY <1>3, <1>4, <1>5, <1>6, <1>7, <1>8, <1>9 DEF Exchange

\* The end of the process stops the service in the middle of its answers.
LEMMA KilledMaps ==
    ASSUME IInv, conn' = Killed, insts' = insts
    PROVE  Filtered!Next
<1>1. ASSUME NEW c \in Conn
      PROVE  /\ conn'[c].req = conn[c].req /\ conn'[c].data = conn[c].data
             /\ conn'[c].phase \in Ended <=> conn[c].req # << >>
  <2>1. GoodConn(conn[c]) /\ conn'[c] = Killed[c]
    BY DEF IInv
  <2>2. CASE Active(c)
    <3>1. conn'[c] = [conn[c] EXCEPT !.phase = "killed"]
      BY <2>1, <2>2 DEF Killed
    <3> QED
      BY <2>1, <2>2, <3>1 DEF GoodConn, Active, Ended
  <2>3. CASE ~Active(c)
    <3>1. conn'[c] = conn[c]
      BY <2>1, <2>3 DEF Killed
    <3> QED
      BY <2>1, <2>3, <3>1 DEF GoodConn, Active, Ended, Phase
  <2> QED
    BY <2>2, <2>3
<1>2. Filtered!Stop
  BY <1>1 DEF Filtered!Stop, Ended
<1> QED
  BY <1>2 DEF Filtered!Next

\* Every step of the gateway is one of the store's, or none.
LEMMA NextMaps ==
    ASSUME IInv, [Next]_vars
    PROVE  [Filtered!Next]_(Filtered!vars)
<1>1. ASSUME conn' = conn, insts' = insts
      PROVE  UNCHANGED Filtered!vars
  BY <1>1 DEF Filtered!vars
<1>2. CASE Start \/ Signal \/ Drained
  BY <1>1, <1>2 DEF Start, Signal, Drained
<1>3. CASE ListenFails \/ GraceExpires
  BY <1>3, KilledMaps DEF ListenFails, GraceExpires
<1>4. CASE \E c \in Conn : (\E req \in Requests : Arrive(c, req)) \/ Serve(c) \/ BodyRead(c) \/ Disconnect(c)
  BY <1>4, HandlerMaps
<1>5. CASE \E c \in Conn : Exchange(c)
  BY <1>5, ExchangeMaps
<1>6. CASE UNCHANGED vars
  BY <1>1, <1>6 DEF vars
<1> QED
  BY <1>2, <1>3, <1>4, <1>5, <1>6 DEF Next

\* To its clients the gateway is a Loki that holds only what their instance
\* shows, and that keeps to what it has said.
THEOREM GatewayImplementsFilteredLoki == Spec => ImplementsFilteredLoki
<1>1. Init => IInv /\ Filtered!Init
  BY InitHasInvariant, InitMaps
<1>2. IInv /\ [Next]_vars => IInv' /\ [Filtered!Next]_(Filtered!vars)
  BY NextKeepsInvariant, NextMaps
<1> QED
  BY <1>1, <1>2, PTL DEF Spec, ImplementsFilteredLoki, Filtered!Spec
=============================================================================
