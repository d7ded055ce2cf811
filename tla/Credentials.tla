---------------------------- MODULE Credentials ----------------------------
(***************************************************************************)
(* The two doors of the server together: the pairing of a Browser Host     *)
(* and the login of the operator. They share the process and nothing else. *)
(***************************************************************************)
EXTENDS HostPairing, OperatorLogin

DoorSpec == DoorInit /\ [][DoorNext]_door
CredentialsSpec == PairingSpec /\ DoorSpec

\* What lets anyone in stands, and stays withdrawn once it is withdrawn: the credential
\* of a host and the session of the operator (BrowserHostRepository, core/security.py).
OnlyStandingCredentials == WithdrawnStaysWithdrawn /\ TheDoorHolds
=============================================================================
