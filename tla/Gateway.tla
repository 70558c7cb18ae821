------------------------------ MODULE Gateway -------------------------------
(***************************************************************************)
(* One attempt at a port mapping (map() of portmap.js): search the network   *)
(* for routers with UPnP, read what each one is, ask the first usable one   *)
(* for the forward, and fall back to NAT-PMP at the default gateway.  The   *)
(* search and NAT-PMP run over datagrams, which are lost, late and          *)
(* repeated; a call over HTTP may fail or be carried out without its answer *)
(* arriving.  Module Portmap is the controller that keeps such a mapping;   *)
(* stale entries of ours and permanent leases are modelled there.           *)
(***************************************************************************)
EXTENDS Naturals, Sequences, FiniteSets

CONSTANTS
  Devices,     \* what answers on the local network
  Kinds,       \* the kinds of devices looked at
  MaxLost,     \* bound: HTTP calls that fail or lose their answer
  None

VARIABLES
  kind,        \* what each device is
  route,       \* the default gateway: a device, or none known
  stage,       \* what map() is doing
  heard,       \* replies taken, in order
  grace,       \* the 300 ms after the first of them run
  asked,       \* devices a HTTP request went to
  service,     \* the WAN service chosen at the device that is asked
  entry,       \* each device's forward of the port, and over which service
  errs,        \* a conflict was among the errors of UPnP
  local,       \* NAT-PMP: an answer to the request under way has come
  result,      \* the mapping returned
  lost, dark   \* bound; devices that may have done what they did not confirm

search == <<heard, grace>>
vars == <<kind, route, stage, search, asked, service, entry, errs, local, result, lost, dark>>

\* A kind: what it says of itself in the search; whose address its LOCATION
\* names; whether its control URL stays on that host; its WAN services, the
\* one that is connected; who has the port; whether NAT-PMP is on.
KindType == [igd : BOOLEAN, location : {"own", "local", "remote"}, control : BOOLEAN,
             wan : SUBSET {"ip", "ppp"}, connected : {"ip", "ppp", None},
             port : {"free", "other"}, pmp : {"grants", "refuses", "off"}]
Forwards == [who : {"us", "other"}, over : {"ip", "ppp", "pmp"}]
Mappings == [at : Devices, over : {"ip", "ppp", "pmp"}]

TypeOK ==
  /\ kind \in [Devices -> KindType] /\ route \in Devices \cup {None}
  /\ stage \in {"search", "load", "read", "add", "route", "external", "map", "done", "failed"}
  /\ heard \in Seq(Devices) /\ grace \in BOOLEAN /\ asked \subseteq Devices
  /\ service \in {"ip", "ppp", None}
  /\ entry \in [Devices -> Forwards \cup {None}]
  /\ errs \in BOOLEAN /\ local \in BOOLEAN
  /\ result \in Mappings \cup {None}
  /\ lost \in 0..MaxLost /\ dark \subseteq Devices

\* A WAN service of a router that has one is what forwards; the search has
\* been sent.
Init ==
  /\ kind \in [Devices -> Kinds] /\ route \in Devices \cup {None}
  /\ stage = "search" /\ heard = <<>> /\ grace = FALSE
  /\ asked = {} /\ service = None
  /\ entry = [d \in Devices |-> IF kind[d].port = "other" THEN [who |-> "other", over |-> "ip"] ELSE None]
  /\ errs = FALSE /\ local = FALSE /\ result = None
  /\ lost = 0 /\ dark = {}

-----------------------------------------------------------------------------
(* The search (ssdpDiscover).                                               *)

\* Only a gateway whose description is on its own host or on the local network.
Taken_Any(d) == kind[d].igd                                           \* mutant
Taken(d) == kind[d].igd /\ kind[d].location # "remote"

\* A reply arrives: the second of the same location counts for nothing.
Reply(d) ==
  /\ stage = "search"
  /\ Taken(d) /\ d \notin {heard[i] : i \in DOMAIN heard}
  /\ heard' = Append(heard, d) /\ grace' = TRUE
  /\ UNCHANGED <<kind, route, stage, asked, service, entry, errs, local, result, lost, dark>>

\* The grace after the first reply, or the deadline.
SearchOver ==
  /\ stage = "search"
  /\ IF heard # <<>> THEN stage' = "load" ELSE stage' = "route"
  /\ UNCHANGED <<kind, route, search, asked, service, entry, errs, local, result, lost, dark>>

-----------------------------------------------------------------------------
(* UPnP at the routers found, in turn (upnpMap).                            *)

Here == heard[1]
\* This one failed: the next one, or the next method.
Onward ==
  /\ heard' = Tail(heard)
  /\ stage' = IF Len(heard) > 1 THEN "load" ELSE "route"

\* httpRequest: the call fails, or only its answer is lost.
Lost == lost < MaxLost /\ lost' = lost + 1

\* parseDeviceDescription: a WAN service, controlled on the same host.
Usable(d) == kind[d].wan # {} /\ kind[d].control

\* loadGateway: the description.
Load ==
  /\ stage = "load" /\ asked' = asked \cup {Here}
  /\ \/ Usable(Here) /\ stage' = "read" /\ UNCHANGED <<search, lost>>
     \/ ~Usable(Here) /\ Onward /\ UNCHANGED <<grace, lost>>
     \/ Lost /\ Onward /\ UNCHANGED grace
  /\ UNCHANGED <<kind, route, service, entry, errs, local, result, dark>>

\* loadGateway: the first service that tells its address, else the first: WANIP
\* before WANPPP.
First(wan) == IF "ip" \in wan THEN "ip" ELSE "ppp"
Choice(d, heards) ==
  IF kind[d].connected \in heards THEN kind[d].connected ELSE First(kind[d].wan)
Read ==
  /\ stage = "read" /\ stage' = "add"
  /\ \/ service' = Choice(Here, kind[Here].wan) /\ UNCHANGED <<lost, dark>>
     \/ Lost /\ service' = Choice(Here, {}) /\ dark' = dark \cup {Here}
  /\ UNCHANGED <<kind, route, search, asked, entry, errs, local, result>>

\* upnpAdd: granted; refused since another device has the port, which ends
\* UPnP; or the call fails, with or without the router having done it.
Conflict == entry[Here] # None /\ entry[Here].who = "other"
Add ==
  /\ stage = "add"
  /\ \/ /\ ~Conflict
        /\ entry' = [entry EXCEPT ![Here] = [who |-> "us", over |-> service]]
        /\ result' = [at |-> Here, over |-> service] /\ stage' = "done"
        /\ UNCHANGED <<search, errs, lost, dark>>
     \/ /\ Conflict
        /\ errs' = TRUE /\ stage' = "route" /\ UNCHANGED <<search, entry, result, lost, dark>>
     \/ /\ Lost /\ dark' = dark \cup {Here}
        /\ entry' \in {entry} \cup (IF Conflict THEN {} ELSE
                         {[entry EXCEPT ![Here] = [who |-> "us", over |-> service]]})
        /\ Onward /\ UNCHANGED <<grace, errs, result>>
  /\ UNCHANGED <<kind, route, asked, service, local>>

-----------------------------------------------------------------------------
(* NAT-PMP at the default gateway (natpmpMap).                              *)

\* discoverGateway, natpmpMap: without a route it is skipped.
FindsRoute ==
  /\ stage = "route"
  /\ stage' = IF route = None THEN "failed" ELSE "external"
  /\ local' = FALSE
  /\ UNCHANGED <<kind, route, search, asked, service, entry, errs, result, lost, dark>>

\* natpmpRequest: sent again after 250 ms, 500 ms, ... until an answer to it
\* comes or the time is over; a gateway that gets it twice answers twice, and
\* grants the same forward.
External ==
  /\ stage = "external"
  /\ \/ kind[route].pmp = "grants" /\ stage' = "map"
     \/ stage' = "failed"                     \* refused, port closed, no answer
  /\ UNCHANGED <<kind, route, search, asked, service, entry, errs, local, result, lost, dark>>

MapArrives ==
  /\ stage = "map" /\ kind[route].pmp = "grants" /\ ~local
  /\ entry' = [entry EXCEPT ![route] = IF @ = None THEN [who |-> "us", over |-> "pmp"] ELSE @]
  /\ local' = TRUE
  /\ UNCHANGED <<kind, route, stage, search, asked, service, errs, result, lost, dark>>

\* natpmpAdd: another external port when this one is taken.
MapAnswered ==
  /\ stage = "map" /\ local
  /\ result' = [at |-> route, over |-> "pmp"] /\ stage' = "done"
  /\ UNCHANGED <<kind, route, search, asked, service, entry, errs, local, lost, dark>>
MapFails ==
  /\ stage = "map" /\ stage' = "failed"
  /\ dark' = IF local THEN dark \cup {route} ELSE dark
  /\ UNCHANGED <<kind, route, search, asked, service, entry, errs, local, result, lost>>

Next ==
  \/ \E d \in Devices : Reply(d)
  \/ SearchOver \/ Load \/ Read \/ Add
  \/ FindsRoute \/ External \/ MapArrives \/ MapAnswered \/ MapFails

Spec == Init /\ [][Next]_vars
-----------------------------------------------------------------------------
\* The attempt leaves the network in order.  Nobody but a gateway of this
\* network is asked; what another device has is left to it; a mapping returned
\* is held by the router it names, over the service that is connected where
\* the router said which; and no other router forwards the port to us, nor any
\* router when the attempt failed, unless it never confirmed what it was asked
\* (map(), upnpMap: the next router is asked only after this one refused).
OneForward ==
  /\ \A d \in asked : kind[d].igd /\ kind[d].location # "remote"
  /\ \A d \in Devices : kind[d].port = "other" => entry[d] # None /\ entry[d].who = "other"
  /\ \A d \in Devices \ dark :
       entry[d] # None /\ entry[d].who = "us" /\ stage \in {"done", "failed"}
         => /\ result # None /\ result.at = d
            /\ result.over \in {kind[d].connected, "pmp"} \/ kind[d].connected \notin kind[d].wan
  /\ stage = "done" => \/ entry[result.at].who = "us"
                       \/ result.over = "pmp"
-----------------------------------------------------------------------------
(* What OneForward rests on.                                                *)

Shapes ==
  /\ kind \in [Devices -> KindType] /\ route \in Devices \cup {None}
  /\ stage \in {"search", "load", "read", "add", "route", "external", "map", "done", "failed"}
  /\ heard \in Seq(Devices) /\ asked \subseteq Devices
  /\ entry \in [Devices -> Forwards \cup {None}]
  /\ service \in {"ip", "ppp", None} /\ local \in BOOLEAN
  /\ result \in Mappings \cup {None}

\* The routers still to be asked are gateways, and the one that is asked is the
\* first of them.
InTheList ==
  /\ \A i \in DOMAIN heard : Taken(heard[i])
  /\ stage \in {"load", "read", "add"} => heard # <<>>
  /\ stage \in {"read", "add"} => Usable(Here)
  /\ stage = "add" => service \in {"ip", "ppp"} /\ (Here \in dark \/ service = Choice(Here, kind[Here].wan))
  /\ stage \in {"external", "map"} => route # None

\* A forward of ours is the one returned, or about to be, or was never confirmed.
Accounted ==
  \A d \in Devices : entry[d] # None /\ entry[d].who = "us" =>
    \/ d \in dark
    \/ stage = "map" /\ local /\ route = d
    \/ stage = "done" /\ result # None /\ result.at = d

ForwardInv == Shapes /\ InTheList /\ Accounted /\ OneForward
=============================================================================
