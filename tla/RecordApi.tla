----------------------------- MODULE RecordApi ------------------------------
(***************************************************************************)
(* The active record calls of the three back ends and of the services over *)
(* them: which statement a call sends, to which rows, and what it answers. *)
(* A call is one statement of its own transaction, except those that       *)
(* module Records gives steps of their own.                                *)
(***************************************************************************)
EXTENDS Naturals

CONSTANTS
    SoftDeletes,     \* the model has a soft_delete_column
    Timestamps       \* the model has timestamp_columns

ASSUME ApiAssumption == SoftDeletes \in BOOLEAN /\ Timestamps \in BOOLEAN

\* what an executor function sends and returns: rows, one (or None), fail (or
\* RowNotFound), count, value (an aggregate), affected, row, id
Sends(verb, answer) == [verb |-> verb, answer |-> answer]

\* the rows it is about, those that are not soft-deleted only or all of them,
\* and whether a registered Repository takes the call over
On(f, where, only) ==
    [verb |-> f.verb, answer |-> f.answer, where |-> where, only |-> only,
     overridable |-> FALSE]
Overridable(call) == [call EXCEPT !.overridable = TRUE]

\* a call that sends nothing
Silent(answer) == On(Sends("nothing", answer), "all", "any")

Wheres == {"pk", "key", "all", "first", "last"}
Filters == {"any", "active", "trashed"}

-----------------------------------------------------------------------------
(* PostgreSQL.                                                             *)

PgReading ==
    [fetch_all |-> Sends("select", "rows"), fetch_optional |-> Sends("select", "one"),
     count |-> Sends("select", "count"), execute_raw |-> Sends("update", "affected")]

PgWriting ==
    [bulk_insert |-> Sends("insert many", "affected"),
     soft_delete |-> Sends("trash", "affected"), restore |-> Sends("restore", "affected"),
     touch |-> Sends(IF Timestamps THEN "touch" ELSE "nothing", "affected"),
     aggregate |-> Sends("select", "value"), upsert |-> Sends("upsert", "affected"),
     increment |-> Sends("update", "affected")]

PgReturning ==
    [insert |-> Sends("insert", "row"), bulk_insert |-> Sends("insert many", "rows"),
     update |-> Sends("update", "rows"), delete |-> Sends("delete", "rows"),
     upsert |-> Sends("upsert", "row"), bulk_upsert |-> Sends("upsert", "affected")]

PgInsert == Sends("insert", "affected")
PgUpdate == Sends("update", "affected")
PgDelete == Sends("delete", "affected")

PgModelReads ==
    [all |-> Overridable(On(PgReading.fetch_all, "all", "any")),
     find_where |-> On(PgReading.fetch_all, "key", "any"),
     find_by_pk |-> Overridable(On(PgReading.fetch_optional, "pk", "any")),
     count |-> On(PgReading.count, "all", "any"),
     count_where |-> On(PgReading.count, "key", "any")]

PgModelWrites ==
    [create |-> Overridable(On(PgInsert, "key", "any")),
     update_by_pk |-> Overridable(On(PgUpdate, "pk", "any")),
     delete_by_pk |-> Overridable(On(PgDelete, "pk", "any")),
     delete_where |-> On(PgDelete, "key", "any"),
     update_where |-> On(PgUpdate, "key", "any"),
     bulk_create |-> On(PgWriting.bulk_insert, "key", "any"),
     bulk_upsert |-> On(PgReturning.bulk_upsert, "key", "any")]

\* all_query, filter and find_query build a ModelQuery, which leaves the
\* soft-deleted rows out
PgModelQueries ==
    [create_returning |-> On(PgReturning.insert, "key", "any"),
     filter |-> On(PgReading.fetch_all, "key", "active"),
     all_query |-> On(PgReading.fetch_all, "all", "active"),
     find_query |-> On(PgReading.fetch_all, "pk", "active"),
     find_or_fail |-> On([PgReading.fetch_optional EXCEPT !.answer = "fail"], "pk", "any"),
     delete_self |-> On(PgDelete, "pk", "any"),
     insert_many |-> On(PgReturning.bulk_insert, "key", "any"),
     upsert_returning |-> On(PgReturning.upsert, "key", "any")]

\* sum, avg, max and min
PgModelAggregates ==
    [f \in {"sum", "avg", "max", "min"} |-> On(PgWriting.aggregate, "all", "any")]

PgModelSoftDeletes ==
    [soft_delete_by_pk |-> On(PgWriting.soft_delete, "pk", "any"),
     restore_by_pk |-> On(PgWriting.restore, "pk", "any"),
     touch_by_pk |-> On(PgWriting.touch, "pk", "any"),
     soft_delete_where |-> On(PgWriting.soft_delete, "key", "any")]

-----------------------------------------------------------------------------
(* MySQL and SQLite.                                                       *)

MysqlExecutor ==
    [fetch_all |-> Sends("select", "rows"), fetch_optional |-> Sends("select", "one"),
     count |-> Sends("select", "count"), execute_raw |-> Sends("update", "affected"),
     insert |-> Sends("insert", "id"), update |-> Sends("update", "affected"),
     delete |-> Sends("delete", "affected"), aggregate |-> Sends("select", "value")]

\* first() has no ORDER BY
MysqlModelReads ==
    [all |-> On(MysqlExecutor.fetch_all, "all", "any"),
     find_where |-> On(MysqlExecutor.fetch_all, "key", "any"),
     find_by_pk |-> On(MysqlExecutor.fetch_optional, "pk", "any"),
     find_or_fail |-> On([MysqlExecutor.fetch_optional EXCEPT !.answer = "fail"], "pk", "any"),
     count |-> On(MysqlExecutor.count, "all", "any"),
     count_where |-> On(MysqlExecutor.count, "key", "any"),
     first |-> On(MysqlExecutor.fetch_optional, "first", "any"),
     last |-> On(MysqlExecutor.fetch_optional, "last", "any")]

MysqlModelWrites ==
    [create |-> On(MysqlExecutor.insert, "key", "any"),
     update_by_pk |-> On(MysqlExecutor.update, "pk", "any"),
     delete_by_pk |-> On(MysqlExecutor.delete, "pk", "any"),
     delete_self |-> On(MysqlExecutor.delete, "pk", "any"),
     aggregates |-> On(MysqlExecutor.aggregate, "all", "any")]

SqliteExecutor ==
    [fetch_all |-> Sends("select", "rows"), fetch_optional |-> Sends("select", "one"),
     count |-> Sends("select", "count"), execute_raw |-> Sends("update", "affected"),
     insert |-> Sends("insert", "affected"), update |-> Sends("update", "affected"),
     delete |-> Sends("delete", "affected"), insert_returning |-> Sends("insert", "row")]

SqliteModel ==
    [all |-> On(SqliteExecutor.fetch_all, "all", "any"),
     find_where |-> On(SqliteExecutor.fetch_all, "key", "any"),
     find_by_pk |-> On(SqliteExecutor.fetch_optional, "pk", "any"),
     count |-> On(SqliteExecutor.count, "all", "any"),
     count_where |-> On(SqliteExecutor.count, "key", "any"),
     create |-> On(SqliteExecutor.insert, "key", "any"),
     update_by_pk |-> On(SqliteExecutor.update, "pk", "any"),
     delete_by_pk |-> On(SqliteExecutor.delete, "pk", "any"),
     delete_where |-> On(SqliteExecutor.delete, "key", "any"),
     update_where |-> On(SqliteExecutor.update, "key", "any"),
     create_returning |-> On(SqliteExecutor.insert_returning, "key", "any")]

-----------------------------------------------------------------------------
(* The services.                                                           *)

\* exists, search and the pages go through a ModelQuery; find and count do not
CrudReads ==
    [all |-> PgModelReads.all, all_with |-> PgModelReads.all, find |-> PgModelReads.find_by_pk,
     find_or_fail |-> PgModelQueries.find_or_fail, count |-> PgModelReads.count,
     exists |-> On(PgReading.count, "pk", "active"),
     query |-> PgModelQueries.all_query, filter |-> PgModelQueries.filter,
     paginate |-> PgModelQueries.all_query, paginate_with |-> PgModelQueries.all_query,
     simple_paginate |-> PgModelQueries.all_query,
     cursor_paginate |-> PgModelQueries.all_query]

CrudWrites ==
    [create |-> PgModelQueries.create_returning, update |-> PgModelWrites.update_by_pk,
     delete |-> PgModelWrites.delete_by_pk,
     soft_delete |-> PgModelSoftDeletes.soft_delete_by_pk,
     restore |-> PgModelSoftDeletes.restore_by_pk,
     bulk_create |-> PgModelWrites.bulk_create, delete_where |-> PgModelWrites.delete_where,
     upsert_by |-> PgModelQueries.upsert_returning]

\* no rows, or no ids, send nothing; COPY is one statement, whatever its size
Batch ==
    [bulk_insert |-> PgModelWrites.bulk_create,
     bulk_upsert_by |-> PgModelWrites.bulk_upsert,
     delete_where |-> PgModelWrites.delete_where,
     bulk_update |-> On(PgUpdate, "pk", "any"), bulk_update_none |-> Silent("affected"),
     copy_insert |-> On(PgWriting.bulk_insert, "key", "any")]

SoftDeleteService ==
    [all_active |-> On(PgReading.fetch_all, "all",
                       IF SoftDeletes THEN "active" ELSE "any"),
     all_deleted |-> IF SoftDeletes THEN On(PgReading.fetch_all, "all", "trashed")
                     ELSE Silent("rows"),
     with_trashed |-> PgModelReads.all,
     soft_delete |-> PgModelSoftDeletes.soft_delete_by_pk,
     restore |-> PgModelSoftDeletes.restore_by_pk,
     force_delete |-> PgModelWrites.delete_by_pk,
     purge_deleted |-> IF SoftDeletes THEN On(PgDelete, "all", "trashed")
                       ELSE Silent("affected")]

Audit == [touch |-> PgModelSoftDeletes.touch_by_pk]

-----------------------------------------------------------------------------
LOCAL Calls(api) == {api[f] : f \in DOMAIN api}

\* every call there is
Api ==
    Calls(PgModelReads) \cup Calls(PgModelWrites) \cup Calls(PgModelQueries)
    \cup Calls(PgModelAggregates) \cup Calls(PgModelSoftDeletes)
    \cup Calls(MysqlModelReads) \cup Calls(MysqlModelWrites) \cup Calls(SqliteModel)
    \cup Calls(CrudReads) \cup Calls(CrudWrites) \cup Calls(Batch)
    \cup Calls(SoftDeleteService) \cup Calls(Audit)

=============================================================================
