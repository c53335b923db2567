--------------------------- MODULE SchemaRevisions ---------------------------
(***************************************************************************)
(* alembic/versions: the statements of each revision, in their order.      *)
(*                                                                         *)
(* A statement creates an object of the schema (a table, a column, an      *)
(* index or a constraint, named with its table), requires a value of every *)
(* row, fills that value in, or alters a column.  needs are the objects it *)
(* mentions.  The columns, keys and constraints that come with a table are *)
(* part of the table.                                                      *)
(***************************************************************************)
EXTENDS Naturals, Sequences

Statement(does, table, name, needs) ==
  [does |-> does, object |-> <<table, name>>, needs |-> needs]

Table(t, parents) == <<Statement("create", t, t, {<<p, p>> : p \in parents})>>
Columns(t, names) ==
  [i \in DOMAIN names |-> Statement("create", t, names[i], {<<t, t>>})]
Index(t, name, columns) ==
  <<Statement("create", t, name, {<<t, t>>} \cup {<<t, c>> : c \in columns})>>
ForeignKey(t, name, column, parent) ==
  <<Statement("create", t, name, {<<t, column>>, <<parent, parent>>})>>
Unique(t, name, columns) == Index(t, name, columns)
DropDefault(t, column, place) == <<Statement("alter", t, column, {<<t, place>>})>>

(* 0001: the first tables, each index after its table.                     *)
InitialSchema ==
  Table("monitors", {})
  \o Table("price_checks", {"monitors"})
  \o Index("price_checks", "ix_price_checks_monitor_id", {})
  \o Table("notifications", {"monitors"})
  \o Index("notifications", "ix_notifications_monitor_id", {})

(* 0002, table by table.                                                   *)
UsersAndSources ==
  Table("users", {})
  \o Index("users", "ix_users_status", {})
  \o Table("products", {})
  \o Index("products", "ix_products_marketplace", {})
  \o Table("product_sources", {"products"})
  \o Index("product_sources", "ix_product_sources_product_id", {})
  \o Index("product_sources", "ix_product_sources_domain", {})
  \o Index("product_sources", "ix_product_sources_marketplace", {})
  \o Index("product_sources", "ix_product_sources_status_last_checked", {})
  \o Index("product_sources", "ix_product_sources_last_success", {})

MonitorColumns ==
  Columns("monitors",
    <<"user_id", "product_source_id", "last_notified_at", "error_reason",
      "error_code", "paused_at", "deleted_at">>)
  \o ForeignKey("monitors", "fk_monitors_user", "user_id", "users")
  \o ForeignKey("monitors", "fk_monitors_product_source",
                "product_source_id", "product_sources")
  \o Index("monitors", "ix_monitors_user_id", {"user_id"})
  \o Index("monitors", "ix_monitors_product_source_id", {"product_source_id"})
  \o Index("monitors", "ix_monitors_status_next_check", {})
  \o Index("monitors", "ix_monitors_user_status", {"user_id"})
  \o Unique("monitors", "uq_monitors_user_source_deleted",
            {"user_id", "product_source_id", "deleted_at"})

PriceCheckColumns ==
  Columns("price_checks",
    <<"product_source_id", "old_price", "availability", "seller_name", "title",
      "http_status", "response_time_ms", "parser_version">>)
  \o ForeignKey("price_checks", "fk_price_checks_product_source",
                "product_source_id", "product_sources")
  \o Index("price_checks", "ix_price_checks_product_source_id",
           {"product_source_id"})
  \o Index("price_checks", "ix_price_checks_source_checked_at",
           {"product_source_id"})
  \o Index("price_checks", "ix_price_checks_checked_at", {})
  \o Index("price_checks", "ix_price_checks_status_checked_at", {})

(* The rows that have no dedupe key get one before it is required.         *)
DedupeKeyRequired ==
  <<Statement("backfill", "notifications", "dedupe_key",
              {<<"notifications", "dedupe_key">>}),
    Statement("require", "notifications", "dedupe_key NOT NULL",
              {<<"notifications", "dedupe_key">>})>>

NotificationColumns ==
  Columns("notifications",
    <<"user_id", "product_source_id", "price_check_id", "type", "dedupe_key",
      "scheduled_at", "error_code", "updated_at", "failed_at">>)
  \o DedupeKeyRequired
  \o ForeignKey("notifications", "fk_notifications_user", "user_id", "users")
  \o ForeignKey("notifications", "fk_notifications_product_source",
                "product_source_id", "product_sources")
  \o ForeignKey("notifications", "fk_notifications_price_check",
                "price_check_id", "price_checks")
  \o Index("notifications", "ix_notifications_user_id", {"user_id"})
  \o Index("notifications", "ix_notifications_status_scheduled",
           {"scheduled_at"})
  \o Index("notifications", "ix_notifications_user_created", {"user_id"})
  \o Index("notifications", "ix_notifications_monitor_created", {})
  \o Unique("notifications", "uq_notifications_dedupe", {"type", "dedupe_key"})

ErrorsAuditStatistics ==
  Table("parser_errors", {"product_sources", "monitors"})
  \o Index("parser_errors", "ix_parser_errors_source_occurred", {})
  \o Index("parser_errors", "ix_parser_errors_occurred", {})
  \o Table("audit_logs", {"users"})
  \o Index("audit_logs", "ix_audit_logs_user_created", {})
  \o Index("audit_logs", "ix_audit_logs_entity", {})
  \o Table("price_check_daily_stats", {"product_sources"})
  \o Index("price_check_daily_stats", "ix_price_check_daily_stats_source_day", {})

FullMonitoringSchema ==
  UsersAndSources \o MonitorColumns \o PriceCheckColumns
    \o NotificationColumns \o ErrorsAuditStatistics

(* 0003, 0004 and 0005.                                                    *)
UserNotificationSettings ==
  Columns("users", <<"notifications_enabled", "default_notification_channel">>)
  \o DropDefault("users", "notifications_enabled", "notifications_enabled")

AdminRuntimeSettings ==
  Columns("users", <<"role">>)
  \o Index("users", "ix_users_role", {"role"})
  \o Table("service_settings", {"users"})
  \o DropDefault("service_settings", "is_secret", "service_settings")

PasswordResetTokens ==
  Table("password_reset_tokens", {"users"})
  \o Index("password_reset_tokens", "ix_password_reset_tokens_token_hash", {})
  \o Index("password_reset_tokens", "ix_password_reset_tokens_user_id", {})
  \o Index("password_reset_tokens", "ix_password_reset_tokens_expires_at", {})

Chain ==
  <<InitialSchema, FullMonitoringSchema, UserNotificationSettings,
    AdminRuntimeSettings, PasswordResetTokens>>
=============================================================================
