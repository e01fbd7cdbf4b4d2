----------------------------- MODULE HttpOrigin -----------------------------
(***************************************************************************)
(* `is_http_origin` of src/src/config/validate.rs.  A text is a sequence   *)
(* of the pieces the function tells apart: a scheme, the separators, a     *)
(* maximal run of decimal digits, and "hex", "name" and "bad", which stand *)
(* for any hexadecimal letter, for any other character a host name may     *)
(* have, and for white space, a control character or one of / ? # @ \.     *)
(***************************************************************************)
EXTENDS Naturals, Sequences

CONSTANT Number   \* the runs of digits considered, each with its value

Digits  == DOMAIN Number
Schemes == {"https://", "http://"}
Others  == {":", "[", "]", ".", "hex", "name", "bad"}
Pieces  == Schemes \cup Digits \cup Others

ASSUME NumberAssumption ==
    /\ Number \in [Digits -> Nat]
    /\ Digits \cap (Schemes \cup Others) = {}

AddressPieces == Digits \cup {"hex", ":", "."}
HostPieces    == Digits \cup {"hex", ".", "name"}

After(text, i)  == SubSeq(text, i + 1, Len(text))
Before(text, i) == SubSeq(text, 1, i - 1)

HostIsValid(host, allowed) ==
    host # <<>> /\ \A i \in DOMAIN host : host[i] \in allowed

\* A value that does not fit u32 does not parse; it is out of range as well.
MaxPort == 65535
Ports   == {d \in Digits : Number[d] \in 1..MaxPort}

PortIsValid(port) == Len(port) = 1 /\ port[1] \in Ports

\* Faulty: what follows the bracket is looked at only after a colon.
FaultyBracketed(rest) ==
    \E i \in DOMAIN rest :
        /\ rest[i] = "]" /\ \A j \in 1..(i - 1) : rest[j] # "]"
        /\ HostIsValid(Before(rest, i), AddressPieces)
        /\ (After(rest, i) # <<>> /\ rest[i + 1] = ":")
             => PortIsValid(After(rest, i + 1))

\* `split_once(']')`: the host ends at the first bracket.
Bracketed(rest) ==
    \E i \in DOMAIN rest :
        /\ rest[i] = "]" /\ \A j \in 1..(i - 1) : rest[j] # "]"
        /\ HostIsValid(Before(rest, i), AddressPieces)
        /\ After(rest, i) # <<>> =>
              rest[i + 1] = ":" /\ PortIsValid(After(rest, i + 1))

\* `rsplit_once(':')`: the port begins after the last colon.
Named(authority) ==
    IF \A i \in DOMAIN authority : authority[i] # ":"
      THEN HostIsValid(authority, HostPieces)
      ELSE \E i \in DOMAIN authority :
              /\ authority[i] = ":"
              /\ \A j \in (i + 1)..Len(authority) : authority[j] # ":"
              /\ HostIsValid(Before(authority, i), HostPieces)
              /\ PortIsValid(After(authority, i))

IsHttpOrigin(text) ==
    /\ text # <<>> /\ text[1] \in Schemes
    /\ LET authority == Tail(text) IN
       IF authority # <<>> /\ authority[1] = "["
         THEN Bracketed(Tail(authority)) ELSE Named(authority)

-----------------------------------------------------------------------------
(* What an origin is, said without a scan: `http(s)://host[:port]` and     *)
(* nothing else (validate.rs:176-180).                                     *)

HostForm(host) ==
    \/ HostIsValid(host, HostPieces)
    \/ /\ Len(host) > 2 /\ host[1] = "[" /\ host[Len(host)] = "]"
       /\ \A i \in 2..(Len(host) - 1) : host[i] \in AddressPieces

PortForm(port) == port # <<>> => port[1] = ":" /\ PortIsValid(Tail(port))

Origin(text) ==
    \E k \in 1..Len(text) :
        /\ text[1] \in Schemes
        /\ HostForm(SubSeq(text, 2, k)) /\ PortForm(SubSeq(text, k + 1, Len(text)))

=============================================================================
