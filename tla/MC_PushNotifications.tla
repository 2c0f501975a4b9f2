------------------------ MODULE MC_PushNotifications ------------------------
(* An instance of PushNotifications for TLC. *)
EXTENDS PushNotifications, TLC

CONSTANTS t1, t2

(* Two handlers share the library's cache; the webhook's is shared by a        *)
(* handler and the refresher.                                                *)
LibraryAndWebhook == "library" :> {t1, t2} @@ "webhook" :> {t1}
=============================================================================
