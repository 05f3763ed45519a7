----------------------------- MODULE ProxyTest -----------------------------
(***************************************************************************)
(* The Observatory's test for a Tor proxy and the dialogs that wait for    *)
(* it: the test begins with the component (ssl-observatory.js 131) and is  *)
(* answered at any time; when the session's windows are restored the       *)
(* extension either invites the user to the Observatory or repairs its     *)
(* settings, and both want the result of the test first                    *)
(* (https-everywhere.js 580-626).                                          *)
(*                                                                         *)
(* External: the check service and the proxy, which answer, or fail, or    *)
(* keep silent (the test sets no timeout); the user.                       *)
(***************************************************************************)
CONSTANT None

VARIABLES
  proxy_test_successful,  \* "unknown" until the test is over, then "yes" or "no"
  request,                \* the test's XHR: "sent" or "over"
  proxy_test_callback,    \* the callback that waits for it
  restored,
  popup,                  \* the invitation is open
  pref,                   \* the Observatory's preferences, see Pref
  due,                    \* history: the callback this session registered
  called,                 \* history: the callbacks this session called
  dropped                 \* history: the answer went unheard while a callback waited

session == <<proxy_test_successful, request, proxy_test_callback, restored, due, called,
             dropped>>
vars == <<session, popup, pref>>

(* touched: the user has set alt_roots, self_signed, send_asn or priv_dns. *)
Pref == {"enabled", "popup_shown", "clean_config", "use_custom_proxy", "touched"}

Set(p, b) == [pref EXCEPT ![p] = b]

(* set_obs_anon and what calls it pass the test's result on: null is       *)
(* not true.                                                               *)
Anonymised(prefs) ==
  [prefs EXCEPT !["use_custom_proxy"] = (proxy_test_successful # "yes")]

(* The test's XHR is sent, or throws at once when no proxy is running.     *)
Sent == [request |-> "sent", result |-> "unknown"]
Threw == [request |-> "over", result |-> "no"]

Init ==
  /\ \E begun \in {Sent, Threw} :
       request = begun.request /\ proxy_test_successful = begun.result
  /\ proxy_test_callback = None /\ restored = FALSE
  /\ popup = FALSE
  /\ pref \in [Pref -> BOOLEAN]
  /\ due = None /\ called = {} /\ dropped = FALSE

-----------------------------------------------------------------------------
(* Callbacks.                                                              *)

ShowPopup == popup' = TRUE /\ UNCHANGED pref

CleanupPrefs(result) ==
  /\ pref' = [pref EXCEPT
       !["clean_config"] = TRUE,
       !["use_custom_proxy"] = @ \/ (result = "no" /\ ~pref["touched"])]
  /\ UNCHANGED popup

Call(callback, result) ==
  /\ callback = None => UNCHANGED <<popup, pref>>
  /\ callback = "popup" => ShowPopup
  /\ callback = "cleanup" => CleanupPrefs(result)
  /\ called' = called \cup ({callback} \ {None})

(* Fault: a test that is over is not noticed.                              *)
RegisterAndWait(callback) ==
  /\ proxy_test_callback' = callback
  /\ UNCHANGED <<called, popup, pref>>

registerProxyTestNotification(callback) ==
  IF proxy_test_successful # "unknown"
  THEN Call(callback, proxy_test_successful) /\ proxy_test_callback' = None
  ELSE /\ proxy_test_callback' = callback
       /\ UNCHANGED <<called, popup, pref>>

(* maybeShowObservatoryPopup and maybeCleanupObservatoryPrefs.             *)
Wanted ==
  IF ~pref["popup_shown"] /\ ~pref["enabled"] THEN "popup"
  ELSE IF pref["popup_shown"] /\ pref["enabled"] /\ ~pref["clean_config"] THEN "cleanup"
  ELSE None

WindowsRestored ==
  /\ ~restored /\ restored' = TRUE
  /\ due' = Wanted
  /\ IF Wanted = None THEN UNCHANGED <<proxy_test_callback, called, popup, pref>>
     ELSE registerProxyTestNotification(Wanted)
  /\ UNCHANGED <<proxy_test_successful, request, dropped>>

(* onreadystatechange.  An answer of 200 that is not XML ends the test     *)
(* without a word to the callback.                                         *)
TestAnswered(answer) ==
  /\ request = "sent" /\ request' = "over"
  /\ proxy_test_successful' = IF answer = "yes" THEN "yes" ELSE "no"
  /\ dropped' = (answer = "garbled" /\ proxy_test_callback # None)
  /\ IF answer = "garbled" THEN UNCHANGED <<proxy_test_callback, called, popup, pref>>
     ELSE Call(proxy_test_callback, proxy_test_successful') /\ proxy_test_callback' = None
  /\ UNCHANGED <<restored, due>>

-----------------------------------------------------------------------------
(* The user.                                                               *)

(* popup_done, after what the button did; "Ask me later" leaves both.      *)
Done(prefs) == [prefs EXCEPT !["popup_shown"] = TRUE, !["clean_config"] = TRUE]

AnswerPopup ==
  /\ popup /\ popup' = FALSE
  /\ pref' \in {Done(Anonymised(Set("enabled", TRUE))), Done(Set("enabled", FALSE)),
                Done(pref), pref}
  /\ UNCHANGED session

(* The preferences dialog: it sets use_custom_proxy as it opens            *)
(* (observatory_prefs_init), then as the user clicks.                      *)
OpenPreferences ==
  /\ ~pref["enabled"]
  /\ pref' = Anonymised(pref)
  /\ UNCHANGED <<session, popup>>

ChangePreference ==
  /\ \E b \in BOOLEAN :
       pref' \in {Set("enabled", b), Set("use_custom_proxy", b), Set("touched", TRUE)}
  /\ UNCHANGED <<session, popup>>

Restart ==
  /\ \E begun \in {Sent, Threw} :
       request' = begun.request /\ proxy_test_successful' = begun.result
  /\ proxy_test_callback' = None /\ restored' = FALSE /\ popup' = FALSE
  /\ due' = None /\ called' = {} /\ dropped' = FALSE
  /\ UNCHANGED pref

Answer == \E answer \in {"yes", "no", "garbled"} : TestAnswered(answer)

Next ==
  \/ WindowsRestored \/ Answer
  \/ AnswerPopup \/ OpenPreferences \/ ChangePreference \/ Restart

Spec == Init /\ [][Next]_vars

-----------------------------------------------------------------------------
(* Properties.                                                             *)

TypeOK ==
  /\ proxy_test_successful \in {"unknown", "yes", "no"} /\ request \in {"sent", "over"}
  /\ proxy_test_callback \in {None, "popup", "cleanup"} /\ restored \in BOOLEAN
  /\ popup \in BOOLEAN /\ pref \in [Pref -> BOOLEAN]
  /\ due \in {None, "popup", "cleanup"} /\ called \subseteq {"popup", "cleanup"}
  /\ dropped \in BOOLEAN

(* Whichever of the end of the test and the restored windows comes first,  *)
(* what was to be done with the result has been done once both are over:   *)
(* no callback is left to a test that has ended.  The one exception is an  *)
(* answer that is not XML while a callback waits (747-756, 774-817).       *)
CallbackComes == request = "over" /\ due # None => due \in called \/ dropped
=============================================================================
