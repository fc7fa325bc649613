----------------------------- MODULE FractalSync -----------------------------
(***************************************************************************)
(* The synchronisation tree of MAGIA: a node (fractal_sync.cpp) joins the  *)
(* requests of two opposite ports and either answers both or asks the node *)
(* above; a tile asks and waits through its memory-mapped controller       *)
(* (fractal_sync_mm_ctrl.cpp).                                             *)
(*                                                                         *)
(* Calls over the wires between nodes are synchronous: a request climbs,   *)
(* and an answer descends, in one step.  Every clock event of a node has   *)
(* delay 1; which of the pending ones runs first is left open.             *)
(*                                                                         *)
(* An aggregate is the set of the levels whose bit is set; {} stands for   *)
(* 0xFFFFFFFF, no request.                                                 *)
(***************************************************************************)
EXTENDS Naturals, Sequences

CONSTANTS Tile, Node, Id,
          Level(_),         \* level of a node
          Above(_, _),      \* node and port above a node's axis, or NoPort
          Below(_, _),      \* <<tile>> or <<node, axis>> below a node's port
          TilePort(_, _),   \* node and port of a tile's EW or NS wires
          Phases,           \* number of synchronisations of each tile
          Plans,            \* sequences of kinds of synchronisation
          Request(_, _),    \* what a tile asks in a synchronisation of a kind
          TeamOf(_, _)      \* the tiles that ask the same

Port == {"NORD", "SUD", "EAST", "WEST"}
Axis == {"NS", "EW"}
NoPort == <<>>
NoRequest == {}

VARIABLES node, tile,
          plan              \* the kinds of synchronisation, in order

vars == <<node, tile, plan>>

AxisOf(p) == IF p \in {"NORD", "SUD"} THEN "NS" ELSE "EW"
\* The ports of an axis, in the order END looks at them.
PortsOf(a) == IF a = "NS" THEN <<"NORD", "SUD">> ELSE <<"EAST", "WEST">>
Msb(aggr) == CHOOSE l \in aggr : \A k \in aggr : k <= l
Kind(k) == plan[k]

Aggr == SUBSET {Level(n) : n \in Node}
Req == [aggr : Aggr, id : Id]
State == {"IDLE"} \cup Port \cup {"NS_UP", "NS_END", "EW_UP", "EW_END"}

TypeOK ==
    /\ \A n \in Node :
        /\ node[n].state \in State
        /\ node[n].req_queue \in Seq([port : Port, req : Req])
        /\ node[n].syncro_val \in [Axis -> [Id -> 0 .. 2]]
        /\ node[n].current_aggr \in [Port -> [Id -> Aggr]]
        /\ node[n].current_id_req \in [Port -> Id]
        /\ node[n].up \in [Axis -> Req]
        /\ node[n].fsm_event \in BOOLEAN
    /\ tile \in [Tile -> [busy : BOOLEAN, done : BOOLEAN, phase : 0 .. Phases]]

NodeInit ==
    [state |-> "IDLE", req_queue |-> <<>>,
     syncro_val |-> [a \in Axis |-> [i \in Id |-> 0]],
     current_aggr |-> [p \in Port |-> [i \in Id |-> NoRequest]],
     current_id_req |-> [p \in Port |-> 0],
     up |-> [a \in Axis |-> [aggr |-> NoRequest, id |-> 0]],
     fsm_event |-> FALSE]

Init ==
    /\ node = [n \in Node |-> NodeInit]
    /\ tile = [t \in Tile |-> [busy |-> FALSE, done |-> FALSE, phase |-> 0]]
    /\ plan \in Plans

-----------------------------------------------------------------------------
(***************************************************************************)
(* Requests.                                                               *)
(***************************************************************************)
busy(r) == r.state # "IDLE"

\* handle_req(), a request that names this level: the node stores it.
take(r, p, req) ==
    [r EXCEPT !.current_aggr[p][req.id] = req.aggr,
              !.current_id_req[p] = req.id,
              !.state = p, !.fsm_event = TRUE]

\* slave_input_method(): a busy node queues the request.
receive(r, p, req) ==
    IF busy(r) THEN [r EXCEPT !.req_queue = Append(@, [port |-> p, req |-> req])]
               ELSE take(r, p, req)

\* The ports a request comes through when it reaches port p of node n: an idle
\* node whose level it does not name hands it on to the node above.
RECURSIVE climb(_, _, _, _)
climb(N, n, p, aggr) ==
    LET up == Above(n, AxisOf(p))
    IN  <<<<n, p>>>> \o IF busy(N[n]) \/ Level(n) \in aggr THEN <<>>
                        ELSE climb(N, up[1], up[2], aggr)

\* handle_req(): the nodes that hand it on note the port, the last one takes it.
request(N, n, p, req) ==
    LET path == climb(N, n, p, req.aggr)
        last == path[Len(path)]
        passed == {path[k] : k \in 1 .. Len(path) - 1}
    IN  [m \in Node |->
            IF m = last[1] THEN receive(N[m], last[2], req)
            ELSE [N[m] EXCEPT !.current_aggr = [q \in Port |->
                    IF <<m, q>> \in passed THEN [@[q] EXCEPT ![req.id] = req.aggr]
                                           ELSE @[q]]]]

(***************************************************************************)
(* Answers.                                                                *)
(***************************************************************************)
\* Faulty: only the first of two waiting ports is answered.
answered_one(r, a, id) ==
    LET S == {p \in Port : AxisOf(p) = a /\ r.current_aggr[p][id] # NoRequest}
    IN  IF S = {} THEN {} ELSE {CHOOSE p \in S : TRUE}

\* master_input_method(): the ports of the axis that asked with this id.
answered(r, a, id) ==
    {p \in Port : AxisOf(p) = a /\ r.current_aggr[p][id] # NoRequest}

\* The ports an answer with this id leaves by, from those of node n down.
RECURSIVE descend(_, _, _)
descend(n, ports, id) ==
    ({n} \X ports) \cup
    UNION {LET b == Below(n, p)
           IN  IF Len(b) = 1 THEN {}
               ELSE descend(b[1], answered(node[b[1]], b[2], id), id) : p \in ports}

\* Faulty: the request is not forgotten.
forget_nothing(r, ports, id) == r

\* The request is forgotten once answered.
forget(r, ports, id) ==
    [r EXCEPT !.current_aggr =
        [p \in Port |-> IF p \in ports THEN [@[p] EXCEPT ![id] = NoRequest]
                                       ELSE @[p]]]

\* fractal_output_method(): the tile is done.
wake(c) == [c EXCEPT !.busy = FALSE, !.done = TRUE]

-----------------------------------------------------------------------------
(***************************************************************************)
(* fsm_handler().                                                          *)
(***************************************************************************)
goto(r, s) == [r EXCEPT !.state = s, !.fsm_event = TRUE]

\* Faulty: one request is enough.
joined_one(r, a, id) == r.syncro_val[a][id] >= 0

joined(r, a, id) == r.syncro_val[a][id] + 1 = 2

\* The aggregate a stored request is tested with: the code of the west port
\* looks at the east one, where no request reads as all bits set.
names_level(r, p, id, l) ==
    LET aggr == r.current_aggr[IF p = "WEST" THEN "EAST" ELSE p][id]
    IN  aggr = NoRequest \/ l \in aggr

\* SLAVE_<port>_REQ: the request is counted, and the node ends the
\* synchronisation, goes up or waits for the other port.
joins(r, p, l) ==
    LET id   == r.current_id_req[p]
        a    == AxisOf(p)
        aggr == r.current_aggr[p][id]
        up   == [r EXCEPT !.up[a] = [aggr |-> aggr, id |-> id]]
        inc(s) == [s EXCEPT !.syncro_val[a][id] = @ + 1]
        END  == IF a = "NS" THEN "NS_END" ELSE "EW_END"
        UP   == IF a = "NS" THEN "NS_UP" ELSE "EW_UP"
    IN  CASE Msb(aggr) = l /\ joined(r, a, id) -> goto(inc(r), END)
          [] Msb(aggr) # l /\ names_level(r, p, id, l) /\ joined(r, a, id) ->
                goto(inc(up), UP)
          [] Msb(aggr) # l /\ ~names_level(r, p, id, l) -> goto(up, UP)
          [] OTHER -> goto(inc(r), "IDLE")

\* The id of a synchronisation that ends.
ended(r, a) ==
    LET i == r.current_id_req[PortsOf(a)[1]]
    IN  IF r.syncro_val[a][i] = 2 THEN i ELSE r.current_id_req[PortsOf(a)[2]]

Run(n) ==
    LET r == [node[n] EXCEPT !.fsm_event = FALSE]
        N == [node EXCEPT ![n] = r]
        entry == Head(r.req_queue)
        a == IF r.state \in {"NS_UP", "NS_END"} THEN "NS" ELSE "EW"
    IN  /\ node[n].fsm_event
        /\ UNCHANGED plan
        /\ \/ /\ r.state = "IDLE" /\ r.req_queue = <<>>
              /\ node' = N /\ UNCHANGED tile
           \/ /\ r.state = "IDLE" /\ r.req_queue # <<>>
              /\ node' = request([N EXCEPT ![n].req_queue = Tail(@)],
                                 n, entry.port, entry.req)
              /\ UNCHANGED tile
           \/ /\ r.state \in Port
              /\ node' = [node EXCEPT ![n] = joins(r, r.state, Level(n))]
              /\ UNCHANGED tile
           \/ LET up == Above(n, a)
                  M == request(N, up[1], up[2], r.up[a])
              IN  /\ r.state \in {"NS_UP", "EW_UP"}
                  /\ node' = [M EXCEPT ![n] =
                        goto([@ EXCEPT !.syncro_val[a][r.up[a].id] = 0], "IDLE")]
                  /\ UNCHANGED tile
           \/ LET id == ended(r, a)
                  out == descend(n, {p \in Port : AxisOf(p) = a}, id)
                  ports(m) == {p \in Port : <<m, p>> \in out}
                  last == [N EXCEPT ![n] = goto(
                            [@ EXCEPT !.syncro_val[a][id] = 0], "IDLE")]
              IN  /\ r.state \in {"NS_END", "EW_END"}
                  /\ node' = [m \in Node |-> forget(last[m], ports(m), id)]
                  /\ tile' = [t \in Tile |->
                        IF \E o \in out : Below(o[1], o[2]) = <<t>>
                        THEN wake(tile[t]) ELSE tile[t]]

-----------------------------------------------------------------------------
(***************************************************************************)
(* FSync_mm_ctrl::req(): software sets aggregate and id, then starts.      *)
(***************************************************************************)
\* The wires a request leaves by.  (Level 0 alone with identifier 2 or 3 would
\* leave by the wires to the neighbour, which are not part of the tree.)
wires(req) == IF req.id % 2 = 0 THEN "EW" ELSE "NS"

Start(t) ==
    LET req == Request(Kind(tile[t].phase + 1), t)
        to == TilePort(t, wires(req))
    IN  /\ ~tile[t].busy
        /\ tile[t].phase < Phases
        /\ node' = request(node, to[1], to[2], req)
        /\ tile' = [tile EXCEPT ![t].busy = TRUE, ![t].done = FALSE,
                                ![t].phase = @ + 1]
        /\ UNCHANGED plan

Finished == \A t \in Tile : tile[t].phase = Phases /\ ~tile[t].busy

Next == (\E n \in Node : Run(n)) \/ (\E t \in Tile : Start(t))

\* Time passes: pending clock events run, and tiles with work ask.  No tile or
\* node is favoured; each has finitely many steps to take.
Spec == Init /\ [][Next]_vars /\ WF_vars(Next)

-----------------------------------------------------------------------------
(***************************************************************************)
(* Properties.                                                             *)
(***************************************************************************)
Barrier == INSTANCE TeamBarrier WITH
    team <- [t \in Tile |-> [k \in 1 .. Phases |-> TeamOf(Kind(k), t)]],
    entered <- [t \in Tile |-> tile[t].phase],
    left <- [t \in Tile |-> tile[t].phase - (IF tile[t].busy THEN 1 ELSE 0)]

\* The network is a barrier for every team: no tile is woken before each tile
\* that shares its aggregate and id has asked, although requests of several
\* teams and of several ids are in the nodes at the same time.
IsTeamBarrier == Barrier!Spec

\* Nothing is left over: once no tile waits and no event is pending, every
\* node is as it was after the reset, so the next synchronisation with the
\* same id starts from a count of 0.
NothingLeftOver ==
    (\A t \in Tile : ~tile[t].busy) /\ (\A n \in Node : ~node[n].fsm_event) =>
        \A n \in Node :
            /\ node[n].syncro_val = NodeInit.syncro_val
            /\ node[n].current_aggr = NodeInit.current_aggr
            /\ node[n].req_queue = <<>>

\* Every tile gets through all its synchronisations.
AllPass == <>Finished
=============================================================================
