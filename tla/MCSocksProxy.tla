----------------------------- MODULE MCSocksProxy -----------------------------
EXTENDS SocksProxy, TLC

CONSTANTS c1, c2

MCClients == {c1, c2}

Asks(version, auth, cmd, atyp) ==
  [version |-> version, auth |-> auth, cmd |-> cmd, atyp |-> atyp,
   slow |-> FALSE, resets |-> FALSE, up |-> 1, down |-> 1]
Ip == Asks(5, TRUE, "connect", "ip")
Name == Asks(5, TRUE, "connect", "name")
Old == Asks(4, TRUE, "connect", "ip")
NoAuth == Asks(5, FALSE, "connect", "ip")
Ipv6 == Asks(5, TRUE, "connect", "ipv6")
Bind == Asks(5, TRUE, "bind", "ip")

Slow(p) == [p EXCEPT !.slow = TRUE]
Reset(p) == [p EXCEPT !.resets = TRUE]

Up(p) == [p EXCEPT !.down = 0]
Down(p) == [p EXCEPT !.up = 0]
Mute(p) == Up(Down(p))

Both(p, q) == (c1 :> p) @@ (c2 :> q)
MCPlans == {Both(Up(Ip), Mute(Name)), Both(Old, Slow(Down(Name))),
            Both(NoAuth, Reset(Down(Ip))), Both(Ipv6, Mute(Reset(Name))),
            Both(Bind, Mute(Name))}
==============================================================================
