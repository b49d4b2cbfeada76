-------------------------------- MODULE Subnet --------------------------------
(***************************************************************************)
(* The way of a subnet from the web page to the server: what is typed into  *)
(* the add and edit pages, how they turn a dotted mask into a prefix, what  *)
(* the CIDR and INET columns accept, and the directives that apply_config   *)
(* generates from the row (server for tun, server-bridge for tap).          *)
(*                                                                         *)
(* Sources: web/routes/configs.py, schema.sql, master/openvpn.c             *)
(* (cidr_to_netmask, generate_tun_config, calc_ip_pool,                     *)
(* generate_tap_config).  An address, or a mask, is the set of the places   *)
(* where it has a one: W places in place of 32, counted from the right, the *)
(* last part has Byte of them in place of 8.  One configuration, one        *)
(* request at a time: ServerConfig has several.                             *)
(***************************************************************************)
EXTENDS Integers, FiniteSetsExt

CONSTANTS
    W,           \* bits of an address (32)
    Byte,        \* bits of its last part (8)
    PoolLow,     \* first host number of a bridge's pool (100)
    PoolHigh,    \* last host number (200)
    Ips,         \* what is typed as server_ip
    None         \* no row, no directive

Addr == SUBSET (0 .. W - 1)

\* As numbers: at the highest place where they differ, the larger has the one.
Less(x, y) == \E i \in y \ x : \A j \in x \ y : j < i
AtMost(x, y) == x = y \/ Less(x, y)

ASSUME WidthAssumption == Byte \in Nat /\ W \in Nat /\ Byte <= W
ASSUME PoolAssumption ==
    PoolLow \union PoolHigh \subseteq 0 .. Byte - 1 /\ Less(PoolLow, PoolHigh)
ASSUME IpsAssumption == Ips \subseteq Addr

VARIABLES
    mode,     \* vpn_config.mode
    asked,    \* what the page that wrote the row was given
    page,     \* the page that wrote it
    row,      \* the row of vpn_config_tun or vpn_config_tap
    line,     \* the directive in the generated file
    fresh     \* history: it was generated from this row

vars == <<mode, asked, page, row, line, fresh>>

M_Netmask_Wide(bits) == {i \in 0 .. W : i >= W - bits}

\* The netmask of a prefix: ones from the top.
Netmask(bits) == {i \in 0 .. W - 1 : i >= W - bits}
Contiguous(m) == \E b \in 0 .. W : m = Netmask(b)

\* What is typed: an address and a subnet, dotted ("mask"), with a prefix ("cidr")
\* or neither; the patterns of the pages let any two digits pass as a prefix.
Subnets == [kind : {"mask"}, addr : Addr, bits : {0}]
             \union [kind : {"cidr"}, addr : Addr, bits : 0 .. W + 1]
             \union [kind : {"bad"}, addr : {{}}, bits : {0}]
Inputs == [ip : Ips, sub : Subnets]
Cidrs == [addr : Addr, bits : 0 .. W]

ASSUME NoneAssumption == None \notin Inputs \union Cidrs

-----------------------------------------------------------------------------
(* The pages and the columns.                                               *)

M_LeadingOnes_Short(m) == Max({b \in 0 .. W - 1 : (W - b) .. (W - 1) \subseteq m})

\* add_config counts the ones from the top until the first zero.
LeadingOnes(m) == Max({b \in 0 .. W : (W - b) .. (W - 1) \subseteq m})

\* edit_config: 32 - (m ^ (m - 1)).bit_length(), where the exclusive or has a one at
\* the lowest one of m and at every place below.
BitLengthForm(m) == IF m = {} THEN 0 ELSE W - (Min(m) + 1)

M_IsCidr_Inet(c) == c.bits <= W

\* The column CIDR: a prefix of at most 32, and no one to its right.
IsCidr(c) == c.bits <= W /\ c.addr \intersect (0 .. W - c.bits - 1) = {}

\* The pages for tun: a dotted mask becomes server_ip with a prefix, a CIDR stays.
TunSubnet(i, bits) ==
    IF i.sub.kind = "mask" THEN [addr |-> i.ip, bits |-> bits]
    ELSE [addr |-> i.sub.addr, bits |-> i.sub.bits]

\* The pages for tap store what is typed.  INET keeps the bits to the right of a prefix
\* and shows none for a full one, which is read back as a dotted mask.
TapSubnet(i) ==
    IF i.sub.kind = "cidr" /\ i.sub.bits = W
    THEN [kind |-> "mask", addr |-> i.sub.addr, bits |-> 0]
    ELSE i.sub

-----------------------------------------------------------------------------
(* What apply_config generates.                                             *)

\* generate_tun_config: CIDR is always shown with its prefix, so server_ip is not used.
TunLine(r) == [net |-> r.addr, mask |-> Netmask(r.bits)]

M_BridgeLine_NoMask(r) ==
    LET mask == IF r.sub.kind = "mask" THEN r.sub.addr ELSE Netmask(r.sub.bits)
    IN  [ip |-> r.ip, mask |-> mask,
         low |-> r.ip \union PoolLow, high |-> r.ip \union PoolHigh]

\* generate_tap_config for a bridge that hands out addresses, with server_ip and a
\* subnet: calc_ip_pool puts its two host numbers into the network of server_ip.
BridgeLine(r) ==
    LET mask == IF r.sub.kind = "mask" THEN r.sub.addr ELSE Netmask(r.sub.bits)
        network == r.ip \intersect mask
    IN  [ip |-> r.ip, mask |-> mask,
         low |-> network \union PoolLow, high |-> network \union PoolHigh]

TunLines == [net : Addr, mask : Addr]
BridgeLines == [ip : Addr, mask : Addr, low : Addr, high : Addr]

\* Every variable has its type; a tun row is a network, a row is there when asked for.
TypeOK ==
    /\ mode \in {"tun", "tap"} /\ page \in {"add", "edit", None}
    /\ asked \in Inputs \union {None}
    /\ row = None <=> asked = None
    /\ row # None => \/ mode = "tun" /\ row \in Cidrs /\ IsCidr(row)
                     \/ mode = "tap" /\ row \in Inputs
    /\ line # None => IF mode = "tun" THEN line \in TunLines ELSE line \in BridgeLines
    /\ fresh \in BOOLEAN

Init ==
    /\ mode \in {"tun", "tap"}
    /\ asked = None /\ page = None /\ row = None /\ line = None
    /\ fresh = FALSE

\* A page stores its row; what is malformed or refused by the column leaves nothing
\* new behind (an added vpn_config row is deleted again, an UPDATE changes nothing).
Store(i, name, bits) ==
    /\ i.sub.kind # "bad"
    /\ IF mode = "tun"
       THEN LET c == TunSubnet(i, bits) IN IsCidr(c) /\ row' = c
       ELSE i.sub.bits <= W /\ row' = [ip |-> i.ip, sub |-> TapSubnet(i)]
    /\ asked' = i /\ page' = name
    /\ fresh' = FALSE
    /\ UNCHANGED <<mode, line>>

Add ==
    /\ row = None
    /\ \E i \in Inputs : Store(i, "add", LeadingOnes(i.sub.addr))

Edit ==
    /\ row # None
    /\ \E i \in Inputs : Store(i, "edit", BitLengthForm(i.sub.addr))

Apply ==
    /\ row # None
    /\ line' = IF mode = "tun" THEN TunLine(row) ELSE BridgeLine(row)
    /\ fresh' = TRUE
    /\ UNCHANGED <<mode, asked, page, row>>

Next == Add \/ Edit \/ Apply

Spec == Init /\ [][Next]_vars

-----------------------------------------------------------------------------
\* The mask that was asked for.
AskedMask == IF asked.sub.kind = "mask" THEN asked.sub.addr ELSE Netmask(asked.sub.bits)

\* The file that tells a tun server its network says the mask that was typed.
Served == fresh /\ mode = "tun" /\ Contiguous(AskedMask) => line.mask = AskedMask

\* What is typed into the add page as a mask, through the prefix the page computes,
\* the CIDR column and cidr_to_netmask, is the mask the server is given.
AddedAsAsked == page = "add" => Served

\* So it is for the edit page, which offers the same two forms.
ServedAsAsked == Served

\* Whichever page was used, the server directive names a network: OpenVPN refuses
\* an address with a one to the right of the mask.
LineIsNetwork == mode = "tun" /\ line # None => line.net \subseteq line.mask

\* For a contiguous mask that leaves the last part to the hosts, the pool of a bridge
\* is a range of addresses inside the subnet of server_ip.
PoolInSubnet ==
    mode = "tap" /\ line # None /\ Contiguous(line.mask) /\ line.mask \intersect (0 .. Byte - 1) = {}
        => /\ Less(line.low, line.high)
           /\ \A x \in Addr :
                 AtMost(line.low, x) /\ AtMost(x, line.high)
                    => x \intersect line.mask = line.ip \intersect line.mask
=============================================================================
