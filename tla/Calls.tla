------------------------------- MODULE Calls -------------------------------
(***************************************************************************)
(* The outcomes of an awaited call to Telegram or to Redis.  A call        *)
(* answers "ok", is "refused" without any effect, or is "lost": it took    *)
(* effect but the answer did not come back.  The caller gets an exception  *)
(* in both of the latter cases (call_telegram_api logs it and raises it    *)
(* again; the Redis repositories let it through).                          *)
(***************************************************************************)

Outcomes(possible, mayFail) ==
    (IF possible THEN {"ok"} ELSE {"refused"})
    \cup (IF mayFail THEN {"refused"} ELSE {})
    \cup (IF possible /\ mayFail THEN {"lost"} ELSE {})
=============================================================================
