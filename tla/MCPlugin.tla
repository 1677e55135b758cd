------------------------------ MODULE MCPlugin ------------------------------
(* Two addresses with one CA each, and documents that have one of each     *)
(* thing the import tells apart.                                           *)
EXTENDS Plugin

MCAddresses == {"1-10", "2-20"}
MCCaOf == [a \in MCAddresses |-> IF a = "1-10" THEN 1 ELSE 2]

Def(l, t) == [label |-> l, type |-> t]
Position == Def("position", "M_SP_NA_1")
Renamed  == Def("renamed", "M_SP_TB_1")
Lamp     == Def("lamp", "M_SP_TA_1")
Switch   == Def("switch", "C_SC_NA_1")
SetPoint == Def("setpoint", "C_SE_TB_1")
MCDefinitions == {Position, Renamed, Lamp, Switch, SetPoint}

Point(a, d, t) == [kind |-> "iec104", addr |-> a, def |-> d, trigger |-> t]
Other(kind) ==
    [kind |-> kind, addr |-> "1-10", def |-> Position, trigger |-> FALSE]

Exchange(points) == [valid |-> TRUE, points |-> points]
NoExchange == [valid |-> FALSE, points |-> <<>>]

Connection(v, p) == [valid |-> v, port |-> p, flags |-> <<>>]
Group(cs, given) == [valid |-> TRUE, connections |-> cs, given |-> given]
Stack(gs, given) == [valid |-> TRUE, groups |-> gs, given |-> given]
NoStack == [valid |-> FALSE, groups |-> <<>>, given |-> <<>>]

Document(s, e, t) == [stack |-> s, exchange |-> e, tls |-> t]

(* Values at, below and above the bounds.                                  *)
MCDocuments ==
    {Document(
        Stack(<<Group(<<Connection(TRUE, 0), Connection(FALSE, 2404),
                        Connection(TRUE, 65635)>>,
                      [k_value |-> 32768, w_value |-> 32767,
                       t0_timeout |-> 0, t1_timeout |-> 256])>>,
              [asdu_size |-> 10, orig_addr |-> 255, ca_asdu_size |-> 3,
               gi_repeat_count |-> -1]),
        Exchange(<<Point("1-10", Position, TRUE),
                   Point("2-20", Lamp, FALSE)>>),
        TRUE),
     Document(
        Stack(<<[Group(<<>>, <<>>) EXCEPT !.valid = FALSE],
                Group(<<Connection(TRUE, 65636)>>, [t3_timeout |-> 0])>>,
              [asdu_size |-> 253, orig_addr |-> 256, ioaddr_size |-> 1]),
        Exchange(<<Point("2-20", SetPoint, TRUE), Other("other"),
                   Point("1-10", Renamed, FALSE),
                   Point("1-10", Switch, FALSE), Other("faulty"),
                   Point("2-20", Position, FALSE)>>),
        FALSE),
     Document(NoStack, NoExchange, FALSE)}

Command(t, a, n, s) ==
    [operation |-> "IEC104Command", type |-> t, addr |-> a, count |-> n,
     stamped |-> s]
MCRequests ==
    {Command("C_SC_TA_1", "1-10", 9, TRUE),
     Command("C_SC_NA_1", "1-10", 8, FALSE),
     [operation |-> "CS104_Connection_sendInterrogationCommand"],
     [operation |-> "request_connection_status"],
     [operation |-> "north_status"]}

Asdu(t, e, i) == [type |-> t, elements |-> e, interrogated |-> i]
MCAsdus ==
    {Asdu("M_SP_TB_1", <<"2-20", "1-10">>, FALSE),
     Asdu("M_SP_TA_1", <<"1-10">>, FALSE),
     Asdu("C_SC_TA_1", <<"2-20", "1-10">>, FALSE),
     Asdu("C_SE_TC_1", <<"2-20">>, TRUE)}
=============================================================================
