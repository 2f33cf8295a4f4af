------------------------- MODULE MCForwardingHosts -------------------------
(***************************************************************************)
(* Instance of ForwardingHosts for TLC: three names whose SPF records      *)
(* include one another, redirect, fail, or come back to themselves.        *)
(* Requests are made in two of the zones.                                  *)
(***************************************************************************)
EXTENDS ForwardingHosts, Functions, TLC

Mech(kind, target) == [qual |-> "+", kind |-> kind, target |-> target, cidr |-> FALSE]
All == [qual |-> "-", kind |-> "other", target |-> "", cidr |-> FALSE]
Net(m) == [m EXCEPT !.cidr = TRUE]

Zone(x, y, z) ==
  [spf |-> ("x" :> x) @@ ("y" :> y) @@ ("z" :> z),
   a |-> ("x" :> {"a"}) @@ ("y" :> {"b"}) @@ ("z" :> {"c"}),
   mx |-> ("x" :> {"y"}) @@ ("y" :> {}) @@ ("z" :> {"x"})]

SpfX ==
  << <<>>,
     << <<Mech("ip", "a"), Mech("include", "y")>> >>,
     << <<Mech("include", "y"), Mech("include", "z"), All>> >>,
     << <<Mech("ip", "a"), Mech("include", "z"), Mech("redirect", "y")>> >>,
     << <<Mech("ip", "a"), All, Mech("include", "y")>>, <<Mech("include", "z")>> >> >>
SpfY ==
  << <<>>,
     << <<Mech("ip", "b")>> >>,
     << <<Mech("include", "z"), Mech("include", "y")>> >>,
     << <<Mech("redirect", "z"), Mech("ip", "b")>> >>,
     << <<Mech("include", "x")>> >>,
     << <<Mech("redirect", "y")>> >> >>
SpfZ ==
  << <<>>,
     << <<Mech("mx", "z"), Net(Mech("a", "x"))>> >>,
     << <<Mech("ip", "c")>> >>,
     << <<Mech("include", "x")>> >>,
     << <<Mech("other", "z"), Mech("redirect", "y")>> >> >>

TwoZones ==
  {Zone(<< <<Mech("ip", "a"), Mech("include", "y")>> >>, << <<Mech("ip", "b")>> >>, <<>>),
    Zone(<<>>, << <<Mech("ip", "b")>> >>, << <<Mech("include", "x")>> >>)}
ManyZones ==
  TwoZones \cup {Zone(x, y, z) : x \in Range(SpfX), y \in Range(SpfY), z \in Range(SpfZ)}

OneLiteral == {Host("b")}
TheHosts == {Host("a"), Host("b")}

ThreadSymmetry == Permutations(Threads)
=============================================================================
