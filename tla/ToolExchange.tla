------------------------------ MODULE ToolExchange ------------------------------
(***************************************************************************)
(* All that passes directly between a tool and the platform, together: its *)
(* registration, the messages that launches send it and the signed tokens  *)
(* it sends back.  Only the tokens of a tool that is registered are looked *)
(* at, with the keys it registered.                                        *)
(***************************************************************************)
EXTENDS ToolToken, LaunchMessage

exchangeVars == <<registered, row, last>>
allVars == <<vars, exchangeVars>>

ExchangeInit == Init /\ RegistrationInit

Known == {t \in ToolIds : row[t] # Absent}

ReceiveToken ==
    /\ Known # {}
    /\ \E t \in Tokens, o \in Options : ValidateMessageToolJwt(t, o)
    /\ UNCHANGED exchangeVars

ExchangeNext ==
    \/ Tick /\ UNCHANGED exchangeVars
    \/ ReceiveToken
    \/ MessageNext /\ UNCHANGED vars

ExchangeSpec == ExchangeInit /\ [][ExchangeNext]_allVars

=============================================================================
