---------------------------- MODULE MCDnsClient ----------------------------
(* A small instance of DnsClient for TLC. *)
EXTENDS DnsClient

CONSTANTS owner, alias, other

MCNames == {owner, alias, other}
=============================================================================
