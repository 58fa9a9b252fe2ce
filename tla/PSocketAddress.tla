---------------------------- MODULE PSocketAddress ---------------------------
(***************************************************************************)
(* Socket addresses, src/lib/psocketaddress.c: made from text, from the    *)
(* system's structure or from a family, and turned back into either.  What *)
(* of an address survives depends on the build: whether the system has     *)
(* IPv6, the two extra fields of its structure and getaddrinfo(), and on   *)
(* the order of bytes in a word.                                           *)
(***************************************************************************)
EXTENDS Integers, Sequences, SequencesExt

CONSTANTS
  Octets,  \* of IPv4 addresses
  Hosts6,  \* IPv6 addresses by their first and last group of bits
  Ports,   \* two bytes each, high byte first
  Extras   \* values of flowinfo and scope_id, 0 among them

ASSUME AddressAssumption ==
  /\ {0, 127} \subseteq Octets /\ Octets \subseteq 0 .. 255
  /\ {<<0, 0>>, <<0, 1>>} \subseteq Hosts6 /\ Hosts6 \subseteq Nat \X Nat
  /\ Ports \subseteq (0 .. 255) \X (0 .. 255)
  /\ 0 \in Extras /\ Extras \subseteq Nat

AddressBuilds ==
  {b \in [ipv6 : BOOLEAN, flow : BOOLEAN, scope : BOOLEAN, info : BOOLEAN,
          order : {"little", "big"}] :
     /\ (b.flow \/ b.scope \/ b.info) => b.ipv6
     /\ b.info => b.scope}

VARIABLES
  addrBuild, \* the build
  addr,      \* a PSocketAddress, or NoAddress
  wire       \* a sockaddr of the system, or NoAddress

addressVars == <<addrBuild, addr, wire>>

NoAddress == [family |-> "unknown"]
Any4 == <<0, 0, 0, 0>>
Any6 == <<0, 0>>
Loopback6 == <<0, 1>>
Hosts4 == Octets \X Octets \X Octets \X Octets
Sizes == [inet |-> 16, inet6 |-> 28]

(* zhtons() and zntohs(), zntohl(): words are in the machine's order in     *)
(* memory and are written here with their high byte first.                  *)
NetworkOrder(bytes) == IF addrBuild.order = "little" THEN Reverse(bytes) ELSE bytes
Load(bytes) == IF addrBuild.order = "little" THEN Reverse(bytes) ELSE bytes
Supported(field, value) == IF field THEN value ELSE 0

Address(family, host, port) ==
  [family |-> family, host |-> host, port |-> port, flow |-> 0, scope |-> 0]

------------------------------------------------------------------------------
(* Mutant: the port of an IPv6 address is not turned.                       *)
NewFromNativeUnturned(native, len) ==
  CASE native.family = "inet" /\ len >= Sizes.inet ->
         Address("inet", native.host, NetworkOrder(native.port))
    [] native.family = "inet6" /\ addrBuild.ipv6 /\ len >= Sizes.inet6 ->
         [family |-> "inet6", host |-> native.host, port |-> native.port,
          flow |-> Supported(addrBuild.flow, native.flow),
          scope |-> Supported(addrBuild.scope, native.scope)]
    [] OTHER -> NoAddress

(* zsocket_address_new_from_native()                                        *)
NewFromNative(native, len) ==
  CASE native.family = "inet" /\ len >= Sizes.inet ->
         Address("inet", native.host, NetworkOrder(native.port))
    [] native.family = "inet6" /\ addrBuild.ipv6 /\ len >= Sizes.inet6 ->
         [family |-> "inet6", host |-> native.host, port |-> NetworkOrder(native.port),
          flow |-> Supported(addrBuild.flow, native.flow),
          scope |-> Supported(addrBuild.scope, native.scope)]
    [] OTHER -> NoAddress

(* zsocket_address_to_native(), NoAddress when it returns FALSE.            *)
ToNative(a, len) ==
  CASE a.family = "inet" /\ len >= Sizes.inet ->
         [family |-> "inet", host |-> a.host, port |-> NetworkOrder(a.port),
          flow |-> 0, scope |-> 0]
    [] a.family = "inet6" /\ addrBuild.ipv6 /\ len >= Sizes.inet6 ->
         [family |-> "inet6", host |-> a.host, port |-> NetworkOrder(a.port),
          flow |-> Supported(addrBuild.flow, a.flow),
          scope |-> Supported(addrBuild.scope, a.scope)]
    [] OTHER -> NoAddress

(* zsocket_address_get_native_size()                                        *)
NativeSize(a) ==
  CASE a.family = "inet" -> Sizes.inet
    [] a.family = "inet6" /\ addrBuild.ipv6 -> Sizes.inet6
    [] OTHER -> 0

(* A text is IPv4 or IPv6, the latter perhaps with an interface behind the  *)
(* address, or no address.                                                  *)
Texts ==
  [kind : {"inet"}, host : Hosts4, zone : {0}]
    \cup [kind : {"inet6"}, host : Hosts6, zone : Extras]
    \cup {[kind |-> "bad", host |-> <<>>, zone |-> 0]}

(* zsocket_address_new(): getaddrinfo() for a text with a colon, else       *)
(* inet_pton(), which knows no interfaces.                                  *)
New(text, port) ==
  CASE text.kind = "inet6" /\ addrBuild.info ->
         NewFromNative([family |-> "inet6", host |-> text.host, port |-> NetworkOrder(port),
                        flow |-> 0, scope |-> text.zone], Sizes.inet6)
    [] text.kind = "inet6" /\ addrBuild.ipv6 /\ ~addrBuild.info /\ text.zone = 0 ->
         Address("inet6", text.host, port)
    [] text.kind = "inet" -> Address("inet", text.host, port)
    [] OTHER -> NoAddress

(* zsocket_address_new_any() and zsocket_address_new_loopback()             *)
NewAny(family, port) ==
  CASE family = "inet" -> Address("inet", Any4, port)
    [] family = "inet6" /\ addrBuild.ipv6 -> Address("inet6", Any6, port)
    [] OTHER -> NoAddress
NewLoopback(family, port) ==
  CASE family = "inet" -> Address("inet", <<127, 0, 0, 0>>, port)
    [] family = "inet6" /\ addrBuild.ipv6 -> Address("inet6", Loopback6, port)
    [] OTHER -> NoAddress

(* zsocket_address_get_address()                                            *)
GetAddress(a) == [kind |-> a.family, host |-> a.host, zone |-> 0]

(* zsocket_address_is_any()                                                 *)
IsAny(a) ==
  CASE a.family = "inet" -> NetworkOrder(Load(a.host)) = Any4
    [] a.family = "inet6" -> addrBuild.ipv6 /\ a.host = Any6
    [] OTHER -> FALSE

(* zsocket_address_is_loopback(): 127.0.0.0/8                               *)
IsLoopback(a) ==
  CASE a.family = "inet" -> Head(NetworkOrder(Load(a.host))) = 127
    [] a.family = "inet6" -> addrBuild.ipv6 /\ a.host = Loopback6
    [] OTHER -> FALSE

------------------------------------------------------------------------------
AddressInit ==
  /\ addrBuild \in AddressBuilds
  /\ addr = NoAddress
  /\ wire = NoAddress

Made(a) == addr' = a /\ UNCHANGED <<addrBuild, wire>>

AddressNew == addr = NoAddress /\ \E t \in Texts, port \in Ports : Made(New(t, port))
AddressNewAny == addr = NoAddress /\ \E f \in {"inet", "inet6"}, port \in Ports : Made(NewAny(f, port))
AddressNewLoopback ==
  addr = NoAddress /\ \E f \in {"inet", "inet6"}, port \in Ports : Made(NewLoopback(f, port))

(* zsocket_address_set_flow_info() and zsocket_address_set_scope_id()       *)
SetFlowInfo(flow) ==
  /\ addr # NoAddress
  /\ Made(IF addrBuild.flow /\ addr.family = "inet6" THEN [addr EXCEPT !.flow = flow] ELSE addr)
SetScopeId(scope) ==
  /\ addr # NoAddress
  /\ Made(IF addrBuild.scope /\ addr.family = "inet6" THEN [addr EXCEPT !.scope = scope] ELSE addr)

(* The address is handed to the system, which hands it on to the other end, *)
(* and zsocket_address_free() releases it.                                  *)
AddressSend ==
  /\ addr # NoAddress
  /\ wire' = ToNative(addr, NativeSize(addr))
  /\ addr' = NoAddress
  /\ UNCHANGED addrBuild
AddressReceive ==
  /\ wire # NoAddress /\ addr = NoAddress
  /\ addr' = NewFromNative(wire, Sizes[wire.family])
  /\ wire' = NoAddress
  /\ UNCHANGED addrBuild

AddressNext ==
  \/ AddressNew \/ AddressNewAny \/ AddressNewLoopback \/ AddressSend \/ AddressReceive
  \/ \E v \in Extras : SetFlowInfo(v) \/ SetScopeId(v)

AddressSpec == AddressInit /\ [][AddressNext]_addressVars

------------------------------------------------------------------------------
(* An address survives the way to the system and back, all of its fields,   *)
(* in every build; the system's structure holds the port with its high byte *)
(* first, whatever the machine's order; and the text of an address gives    *)
(* its host back, without what IPv6 adds to it.                             *)
AddressSurvives ==
  addr # NoAddress =>
    LET native == ToNative(addr, NativeSize(addr)) IN
    /\ native # NoAddress
    /\ Load(native.port) = addr.port
    /\ NewFromNative(native, NativeSize(addr)) = addr
    /\ New(GetAddress(addr), addr.port) = Address(addr.family, addr.host, addr.port)

(* "Such an address is a 127.x.x.x" (psocketaddress.h), and so are the ones *)
(* zsocket_address_new_loopback() makes: an address is told to be loopback  *)
(* or any by its octets alone, whatever the machine's order of bytes.       *)
KindsTold ==
  addr # NoAddress =>
    /\ IsLoopback(addr) <=> addr.host = Loopback6 \/ (addr.family = "inet" /\ addr.host[1] = 127)
    /\ IsAny(addr) <=> addr.host \in {Any4, Any6}

(* zsocket_address_to_native() and zsocket_address_new_from_native() lose   *)
(* nothing of an address, and its tests do not depend on the machine.       *)
AddressesAgree == AddressSurvives /\ KindsTold
==============================================================================
