------------------------------ MODULE MCLauncher ------------------------------
(* Workspaces small enough to check: an app alone, and a host app that
   starts programs from a hosted checkout.                                *)
EXTENDS Launcher, TLC

CONSTANTS app, hosted, l1, p1

OneApp == {app}
OneLaunchOfIt == [l \in {l1} |-> <<app>>]
JustTheApp == <<app>>

(* app is the host: its also-runs names hosted. *)
HostAndHosted == {app, hosted}
AHostLaunch == [l \in {l1} |-> <<app, hosted>>]
HostThenHosted == <<app, hosted>>

JustTheHosted == <<hosted>>

(* Version 1 changes a pin; version 2 only what the checkout installs. *)
PinsByVersion == [v \in Versions |-> IF v = 0 THEN 0 ELSE 1]
PyprojectByVersion == [v \in Versions |-> v]
=============================================================================
