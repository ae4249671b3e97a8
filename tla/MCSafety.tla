------------------------------ MODULE MCSafety ------------------------------
(***************************************************************************)
(* The components whose properties are safety properties, in one model: a  *)
(* behaviour belongs to one component, chosen at the start, and the others *)
(* stay in an initial state.                                               *)
(***************************************************************************)
EXTENDS Pairing, Proxy, NetPolicy, Wire, Tools, UnlockReport, Replay, Settings

VARIABLE part  \* the component the behaviour is of

Parts == {"pairing", "proxy", "policy", "wire", "tools", "unlock", "replay", "settings"}

safetyVars == <<part, pairingVars, proxyVars, netPolicyVars, wireVars, toolVars, unlockVars,
                replayVars, settingsVars>>

\* A component that is not the behaviour's has one initial state.
AtRest ==
    /\ part # "wire" => provider = "anthropic"
    /\ part # "tools" => file = {}
    /\ part # "settings" =>
          Given(runFlags) \cup Given(fileKeys) \cup variables \cup risky = {}

Init ==
    /\ part \in Parts
    /\ PairingInit /\ ProxyInit /\ NetPolicyInit /\ WireInit /\ ToolsInit /\ UnlockReportInit
    /\ ReplayInit /\ SettingsInit
    /\ AtRest

Next ==
    \/ /\ part = "pairing" /\ PairingNext
       /\ UNCHANGED <<part, proxyVars, netPolicyVars, wireVars, toolVars,
                      unlockVars, replayVars, settingsVars>>
    \/ /\ part = "proxy" /\ ProxyNext
       /\ UNCHANGED <<part, pairingVars, netPolicyVars, wireVars, toolVars,
                      unlockVars, replayVars, settingsVars>>
    \/ /\ part = "policy" /\ NetPolicyNext
       /\ UNCHANGED <<part, pairingVars, proxyVars, wireVars, toolVars,
                      unlockVars, replayVars, settingsVars>>
    \/ /\ part = "wire" /\ WireNext
       /\ UNCHANGED <<part, pairingVars, proxyVars, netPolicyVars, toolVars,
                      unlockVars, replayVars, settingsVars>>
    \/ /\ part = "tools" /\ ToolsNext
       /\ UNCHANGED <<part, pairingVars, proxyVars, netPolicyVars, wireVars,
                      unlockVars, replayVars, settingsVars>>
    \/ /\ part = "unlock" /\ UnlockReportNext
       /\ UNCHANGED <<part, pairingVars, proxyVars, netPolicyVars, wireVars,
                      toolVars, replayVars, settingsVars>>
    \/ /\ part = "replay" /\ ReplayNext
       /\ UNCHANGED <<part, pairingVars, proxyVars, netPolicyVars, wireVars,
                      toolVars, unlockVars, settingsVars>>
    \/ /\ part = "settings" /\ SettingsNext
       /\ UNCHANGED <<part, pairingVars, proxyVars, netPolicyVars, wireVars,
                      toolVars, unlockVars, replayVars>>

Spec == Init /\ [][Next]_safetyVars

=============================================================================
