----------------------------- MODULE MCServices -----------------------------
(* Each component on a small instance. *)
EXTENDS Services, TLC

Two == {"1", "2"}
Three == {"1", "2", "3"}
NoFile == -1

MCMaxOf == "x" :> 1 @@ "y" :> 2 @@ "here" :> 3

\* The columns that stand for fleet.db's, and its three migrations.
Drops(c) == [drops |-> {c}, adds |-> {}]
Adds(cs) == [drops |-> {}, adds |-> cs]
MCAddedColumns == <<"enabled", "last_seen_at">>
MCMigrations == <<Drops("is_active"), Adds({"profile", "profile_seen_at"}),
                  Adds({"engines_detected", "engines_seen_at"})>>

Six == 1 .. 6

Tables == {"circuit_breaker_config", "client_billing_settings", "currency_rates",
           "model_price_config", "rate_limit_config", "usage_daily", "usage_events"}
MCEarly == {{"usage_daily"}, {"usage_daily", "usage_events"}, Tables}
=============================================================================
