----------------------------- MODULE NetPolicy -----------------------------
(***************************************************************************)
(* The pure decisions of silo-proxy: which host names the allowlist        *)
(* matches (allowlist.rs) and which addresses the guard blocks             *)
(* (ipguard.rs), each checked against a reference definition.  Host names  *)
(* are sequences of characters, IPv4 addresses of four octets, IPv6        *)
(* addresses of eight 16-bit segments.  The state is one input to each     *)
(* decision: names grow one character at a time, addresses are built from  *)
(* boundary values.                                                        *)
(***************************************************************************)
EXTENDS Integers, Sequences, SequencesExt

CONSTANTS
    MaxName,    \* longest host name and allowlist entry
    Octets,     \* octet values to combine
    Segments    \* first segments of IPv6 addresses to combine

ASSUME NetPolicyAssumption ==
    /\ MaxName \in Nat
    /\ \A o \in Octets : o \in Nat /\ o < 256
    /\ \A s \in Segments : s \in Nat /\ s < 65536

VARIABLES entry, name, v4, v6

netPolicyVars == <<entry, name, v4, v6>>

----------------------------------------------------------------------------
(* The allowlist. *)

\* to_ascii_lowercase
Lower(s) == [i \in DOMAIN s |-> IF s[i] = "A" THEN "a" ELSE s[i]]

\* normalize_host: strips one trailing dot.
NormalizeHost(s) ==
    Lower(IF s # <<>> /\ Last(s) = "." THEN Front(s) ELSE s)

\* DomainAllowlist::new on one entry.
NewEntry(raw) ==
    LET n == NormalizeHost(raw) IN
    IF IsPrefix(<<"*", ".">>, n)
    THEN [wildcard |-> TRUE, suffix |-> SubSeq(n, 3, Len(n))]
    ELSE [wildcard |-> FALSE, suffix |-> n]

\* Mutant: the wildcard matches any name that ends with the suffix.
AllowsEnding(e, raw) ==
    LET host == NormalizeHost(raw) IN
    IF e.wildcard THEN IsSuffix(e.suffix, host) ELSE e.suffix = host

\* DomainAllowlist::allows for one entry.
Allows(e, raw) ==
    LET host == NormalizeHost(raw)
        prefix == SubSeq(host, 1, Len(host) - Len(e.suffix))
    IN  \/ host = e.suffix
        \/ /\ e.wildcard /\ IsSuffix(e.suffix, host)
           /\ prefix # <<>> /\ Last(prefix) = "."

\* The reference: names are lists of labels.  A dot starts a label, any other
\* character extends the last one.
Extend(labels, ch) ==
    IF ch = "." THEN Append(labels, <<>>)
    ELSE [labels EXCEPT ![Len(labels)] = Append(@, ch)]

Labels(s) ==
    LET upTo[n \in 0..Len(s)] == IF n = 0 THEN <<(<<>>)>> ELSE Extend(upTo[n - 1], s[n])
    IN  upTo[Len(s)]

MatchesLabels(pattern, host) ==
    IF Head(pattern) = <<"*">> /\ Len(pattern) > 1
    THEN IsSuffix(Tail(pattern), host)
    ELSE pattern = host

----------------------------------------------------------------------------
(* The address guard. *)

NoReason == "none"

\* IpGuard::check_v4 without the loopback allowance of the tests.
CheckV4(o) ==
    CASE o[1] = 127 -> "loopback"
      [] o = <<0, 0, 0, 0>> -> "unspecified"
      [] o = <<255, 255, 255, 255>> -> "broadcast"
      [] \/ o[1] = 10
         \/ o[1] = 172 /\ o[2] \in 16..31
         \/ o[1] = 192 /\ o[2] = 168 -> "private"
      [] o[1] = 169 /\ o[2] = 254 -> "link-local"
      [] o[1] = 100 /\ o[2] \in 64..127 -> "cgnat"
      [] o[1] \in 224..239 -> "multicast"
      [] OTHER -> NoReason

LastV4(s) == <<s[7] \div 256, s[7] % 256, s[8] \div 256, s[8] % 256>>

\* embedded_ipv4: mapped, NAT64 and compatible addresses.
HasEmbedded(s) ==
    \/ \A i \in 1..5 : s[i] = 0
       /\ s[6] = 65535
    \/ s[1] = 100 /\ s[2] = 65435 /\ \A i \in 3..6 : s[i] = 0
    \/ /\ \A i \in 1..6 : s[i] = 0
       /\ ~(s[7] = 0 /\ s[8] <= 1)

\* (segments[0] & 0xfe00) == 0xfc00
UniqueLocal(s) == s[1] \div 512 = 126

\* IpGuard::check_v6; s & 0xffc0 keeps the top ten bits, and so on.
CheckV6(s) ==
    CASE HasEmbedded(s) -> CheckV4(LastV4(s))
      [] s = <<0, 0, 0, 0, 0, 0, 0, 1>> -> "loopback"
      [] s = <<0, 0, 0, 0, 0, 0, 0, 0>> -> "unspecified"
      [] s[1] \div 64 = 1018 -> "link-local"
      [] UniqueLocal(s) -> "unique-local"
      [] s[1] \div 256 = 255 -> "multicast"
      [] OTHER -> NoReason

\* The reference: an address lies in a CIDR block when it agrees with the
\* block's base in the first `bits` bits, `width` bits to an element.
InBlock(addr, base, bits, width) ==
    \A i \in DOMAIN addr :
        LET kept == bits - width * (i - 1)
            unit == IF kept >= width THEN 1 ELSE 2 ^ (width - kept)
        IN  kept <= 0 \/ addr[i] \div unit = base[i] \div unit

Blocks4 ==
    {<<(<<127, 0, 0, 0>>), 8>>, <<(<<0, 0, 0, 0>>), 32>>, <<(<<255, 255, 255, 255>>), 32>>,
     <<(<<10, 0, 0, 0>>), 8>>, <<(<<172, 16, 0, 0>>), 12>>, <<(<<192, 168, 0, 0>>), 16>>,
     <<(<<169, 254, 0, 0>>), 16>>, <<(<<100, 64, 0, 0>>), 10>>, <<(<<224, 0, 0, 0>>), 4>>}

\* fe80::/10, fc00::/7, ff00::/8, :: and ::1
Blocks6 ==
    {<<(<<65152, 0, 0, 0, 0, 0, 0, 0>>), 10>>, <<(<<64512, 0, 0, 0, 0, 0, 0, 0>>), 7>>,
     <<(<<65280, 0, 0, 0, 0, 0, 0, 0>>), 8>>, <<(<<0, 0, 0, 0, 0, 0, 0, 0>>), 127>>}

Blocked4(o) == \E b \in Blocks4 : InBlock(o, b[1], b[2], 8)

\* The prefixes under which the last 32 bits are an IPv4 address.
Carriers == {<<0, 0, 0, 0, 0, 65535>>, <<100, 65435, 0, 0, 0, 0>>, <<0, 0, 0, 0, 0, 0>>}

Blocked6(s) ==
    \/ \E b \in Blocks6 : InBlock(s, b[1], b[2], 16)
    \/ SubSeq(s, 1, 6) \in Carriers /\ Blocked4(LastV4(s))

----------------------------------------------------------------------------
(* The inputs. *)

Chars == {"a", "A", ".", "*"}

NetPolicyInit ==
    /\ entry = <<>> /\ name = <<>>
    /\ v4 = <<0, 0, 0, 0>>
    /\ v6 = <<0, 0, 0, 0, 0, 0, 0, 0>>

GrowEntry ==
    /\ name = <<>> /\ v4 = <<0, 0, 0, 0>> /\ Len(entry) < MaxName
    /\ \E ch \in Chars : entry' = Append(entry, ch)
    /\ UNCHANGED <<name, v4, v6>>

GrowName ==
    /\ v4 = <<0, 0, 0, 0>> /\ Len(name) < MaxName
    /\ \E ch \in Chars \ {"*"} : name' = Append(name, ch)
    /\ UNCHANGED <<entry, v4, v6>>

\* An IPv4 address and IPv6 addresses that start with a boundary segment or
\* end in the same four octets.
PickAddress ==
    /\ entry = <<>> /\ name = <<>> /\ v4 = <<0, 0, 0, 0>> /\ v6[1] = 0
    /\ \E a, b \in Octets, d \in {0, 1, 255}, first \in Segments, prefix \in Carriers :
          /\ v4' = <<a, b, d, d>>
          /\ v6' \in {prefix \o <<256 * a + b, 256 * d + d>>,
                      <<first, b, 0, 0, 0, 0, 256 * a + b, d>>}
    /\ UNCHANGED <<entry, name>>

NetPolicyNext == GrowEntry \/ GrowName \/ PickAddress

----------------------------------------------------------------------------
(* Properties. *)

AllowsByLabels ==
    Allows(NewEntry(entry), name) <=>
        MatchesLabels(Labels(NormalizeHost(entry)), Labels(NormalizeHost(name)))

GuardMatchesBlocks ==
    /\ CheckV4(v4) # NoReason <=> Blocked4(v4)
    /\ CheckV6(v6) # NoReason <=> Blocked6(v6)

\* The proxy's two decisions agree with their reference definitions.  "a
\* wildcard matches the base domain and every subdomain" (allowlist.rs:4): the
\* string comparison of `allows` never matches across a label boundary and
\* never misses a subdomain.  The octet ranges and bit masks of the address
\* guard block exactly the CIDR blocks its comments name, also for IPv4
\* addresses inside IPv6 ones.
PolicyByReference == AllowsByLabels /\ GuardMatchesBlocks
=============================================================================
