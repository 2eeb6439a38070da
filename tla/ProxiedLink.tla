---------------------------- MODULE ProxiedLink ----------------------------
(***************************************************************************)
(* A connection to a CM server through a proxy (dialTransported and        *)
(* connectOne of internal/steam/cm/client.go): ProxyDial opens it, and what*)
(* WireWrite writes is written to the connection that ProxyDial returned.  *)
(***************************************************************************)
EXTENDS ProxyDial

CONSTANTS Writers, Lengths, MaxFrames

ASSUME LinkAssumption ==
    /\ Lengths \subseteq Nat
    /\ MaxFrames \in Nat

VARIABLES framing, stream, todo, frames, failed, mixed

Wire == INSTANCE WireWrite WITH transport <- framing

wireVars == <<framing, stream, todo, frames, failed, mixed>>

linkedVars == <<dialVars, wireVars>>

LinkInit == DialInit /\ Wire!Init

Dialling == DialNext /\ UNCHANGED wireVars

Writing ==
    /\ result = "conn"
    /\ Wire!Next
    /\ UNCHANGED dialVars

LinkNext == Dialling \/ Writing

\* The dialer runs; nothing obliges the proxy to answer or to hang up, nor
\* anybody to write.
LinkSpec ==
    /\ LinkInit
    /\ [][LinkNext]_linkedVars
    /\ WF_linkedVars(DialContext /\ UNCHANGED wireVars)

-----------------------------------------------------------------------------
(* The properties of both parts. *)

\* The types of both parts.
LinkTypeOK == DialTypeOK /\ Wire!TypeOK

\* The stream is one whole frame after the other (see WireWrite).
WholeFrames == Wire!WholeFrames

\* Header and payload agree on the length (see WireWrite).
LengthsAgree == Wire!LengthsAgree

\* The types (the headers of an HTTP proxy stay bounded, a WebSocket header
\* announces less than 128), and no length that misleads the reader.
LinkConsistent == LinkTypeOK /\ LengthsAgree
=============================================================================
