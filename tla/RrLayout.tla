------------------------------ MODULE RrLayout ------------------------------
(***************************************************************************)
(* How the data of a resource record are made up, as the decoder of replies*)
(* (rrs2cent, dns_query.c) and the composer of answers (add_rr,            *)
(* dns_answer.c) take them: fields of fixed size, names that may be        *)
(* compressed, three texts (NAPTR), and the rest of the record.            *)
(***************************************************************************)
EXTENDS Integers, Sequences

CONSTANT NameBuf     \* DNSNAMEBUFSIZE

(* A name fits in the buffer of an NXT record. *)
ASSUME NameBufAssumption == NameBuf \in Nat \ {0} /\ NameBuf <= 1040

TextsMax  == 4 + 3 * 256    \* NAPTR: two numbers and three texts
Field(n)  == [k |-> "field", n |-> n]
NameField == [k |-> "name", n |-> NameBuf]
Texts     == [k |-> "texts", n |-> TextsMax]
Rest      == [k |-> "rest", n |-> 0]

OneName  == {"CNAME", "MB", "MD", "MF", "MG", "MR", "NS", "PTR"}
TwoNames == {"MINFO", "RP"}
Prefer   == {"MX", "AFSDB", "RT", "KX"}

(* Records of the other types are taken as they are. *)
Named == OneName \union TwoNames \union Prefer \union {"SOA", "PX", "SRV", "NXT", "NAPTR"}
Layout(t) ==
    CASE t \in OneName  -> <<NameField>>
      [] t \in TwoNames -> <<NameField, NameField>>
      [] t \in Prefer   -> <<Field(2), NameField>>
      [] t = "SOA"      -> <<NameField, NameField, Field(20)>>
      [] t = "PX"       -> <<Field(2), NameField, NameField>>
      [] t = "SRV"      -> <<Field(6), NameField>>
      [] t = "NXT"      -> <<NameField, Rest>>
      [] t = "NAPTR"    -> <<Texts, NameField>>
      [] OTHER          -> <<Rest>>

(* The buffer in which rrs2cent puts a record with names together. *)
Room(t) ==
    CASE t \in OneName  -> NameBuf
      [] t \in TwoNames -> NameBuf + NameBuf
      [] t \in Prefer   -> 2 + NameBuf
      [] t = "SOA"      -> NameBuf + NameBuf + 20
      [] t = "PX"       -> 2 + NameBuf + NameBuf
      [] t = "SRV"      -> 6 + NameBuf
      [] t = "NXT"      -> 1040
      [] t = "NAPTR"    -> TextsMax + NameBuf

sizeof_rr_hdr_t == 10
sizeof_opt_pseudo_rr == 1 + sizeof_rr_hdr_t
==============================================================================
