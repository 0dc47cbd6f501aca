----------------------------- MODULE MCCurateGraph -----------------------------
(***************************************************************************)
(* Instances of CurateGraph for TLC: small requests of each profile, with  *)
(* active memories whose versions and sources meet the window's.           *)
(***************************************************************************)
EXTENDS CurateGraph, TLC

CONSTANTS t1, t2, s1, s2

\* Activities are numbered by their seq.
Numbered == [a \in Activity |-> a]

Mem(kind, topic, statement, version, sources) ==
    [kind |-> kind, topic_key |-> topic, statement |-> statement, version |-> version,
     occurrences |-> Len(sources), sources |-> sources, resolves |-> {}]

Req(profile, active, context, window, repairs) ==
    [profile |-> profile, active |-> active, context |-> context, window |-> window,
     max_repairs |-> repairs]

\* A lesson that already cites a failure of the window, as after a replay.
ModuleRequests ==
    {Req("module", active, {1}, {2, 3}, 1) :
        active \in {{}, {Mem("lesson", t1, s1, 2, <<2>>)}}}

\* Two lessons of one topic key, as a host that lost a supersede would send.
RoomRequests ==
    {Req("room", active, {1}, {2, 3}, 0) :
        active \in {{}, {Mem("fact", t1, s1, 2, <<2>>)},
                    {Mem("lesson", t1, s2, 1, <<1>>), Mem("lesson", t1, s1, 3, <<3>>)}}}

CollabRequests ==
    {Req("collab", {Mem("question", t1, s1, 1, <<1>>), Mem("decision", t2, s1, 2, <<2>>)},
         {1}, {2}, 0)}

AllRequests == ModuleRequests \cup RoomRequests \cup CollabRequests

Bounds ==
    [module |-> [topics |-> {t1, t2}, kinds |-> {"fact"}, lessons |-> 1, assignments |-> 2,
                 memories |-> 0, conflicts |-> 0, quotes |-> 0],
     room   |-> [topics |-> {t1}, kinds |-> {"fact", "lesson"}, lessons |-> 0,
                 assignments |-> 0, memories |-> 2, conflicts |-> 0, quotes |-> 2],
     collab |-> [topics |-> {t1, t2}, kinds |-> {"decision"}, lessons |-> 0, assignments |-> 0,
                 memories |-> 2, conflicts |-> 1, quotes |-> 1]]
===============================================================================
