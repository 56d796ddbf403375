---------------------------- MODULE MappedTables ----------------------------
(***************************************************************************)
(* What the program takes the database to be: the Table objects its            *)
(* repositories read and write, and the values of the domain's enumerations.   *)
(***************************************************************************)
EXTENDS DatabaseSchema

(* The tables.  A definition has the name of the Table object; the record at the *)
(* end gives the name in the database. *)

users ==
  Table(
    {"id", "email", "status", "created_at"},
    {"password_hash", "activated_at", "telegram_chat_id", "name"}, {},
    {{"id"}, {"email"}},
    {OneOf("account_status", "status", {"pending_verification", "active"})}, {})

verification_tokens ==
  Table(
    {"id", "user_id", "token_digest", "expires_at", "created_at"}, {"consumed_at"},
    {Key("user_id", "users", "CASCADE")}, {{"id"}, {"token_digest"}}, {}, {{"user_id"}})

password_reset_tokens ==
  Table(
    {"id", "user_id", "token_digest", "expires_at", "created_at"}, {"consumed_at"},
    {Key("user_id", "users", "CASCADE")}, {{"id"}, {"token_digest"}}, {}, {{"user_id"}})

email_change_tokens ==
  Table(
    {"id", "user_id", "new_email", "token_digest", "expires_at", "created_at"},
    {"consumed_at"}, {Key("user_id", "users", "CASCADE")},
    {{"id"}, {"token_digest"}}, {}, {{"user_id"}})

authenticated_sessions ==
  Table(
    {"id", "user_id", "token_digest", "expires_at", "created_at"}, {"user_agent"},
    {Key("user_id", "users", "CASCADE")}, {{"id"}, {"token_digest"}}, {}, {{"expires_at"},
      {"user_id"}})

google_identities ==
  Table(
    {"id", "user_id", "subject", "email", "created_at"}, {},
    {Key("user_id", "users", "CASCADE")}, {{"id"}, {"subject"}}, {}, {{"user_id"}})

dictionaries ==
  Table(
    {"id", "owner_id", "status", "created_at", "updated_at", "updated_by"},
    {"title", "description", "article_description", "dictionary_type",
     "publisher", "publication_year", "edition", "isbn", "digital_source",
     "legal_status", "license_type", "permission_reference", "rights_note"},
    {Key("owner_id", "users", "CASCADE"), Key("updated_by", "users", "CASCADE")},
    {{"id"}},
    {OneOf("dictionary_status", "status", {"draft", "configured", "scanned",
       "in_progress", "processed", "published"}),
     OneOf("dictionary_legal_status", "legal_status", {"public_domain",
       "licensed", "permission_granted", "restricted", "unknown"})}, {{"owner_id"}})

dictionary_contributors ==
  Table(
    {"id", "dictionary_id", "name", "role", "position"}, {},
    {Key("dictionary_id", "dictionaries", "CASCADE")}, {{"id"}},
    {OneOf("contributor_role", "role", {"author", "compiler"})}, {{"dictionary_id"}})

dictionary_languages ==
  Table(
    {"id", "dictionary_id", "language_code", "position"}, {},
    {Key("dictionary_id", "dictionaries", "CASCADE")}, {{"id"}}, {}, {{"dictionary_id"}})

dictionary_page_ranges ==
  Table(
    {"id", "dictionary_id", "start_page", "end_page", "position"}, {},
    {Key("dictionary_id", "dictionaries", "CASCADE")}, {{"id"}},
    {Rule("dictionary_page_range_start_page", {"start_page"}),
     Rule("dictionary_page_range_end_page", {"end_page", "start_page"})},
       {{"dictionary_id"}})

dictionary_abbreviations ==
  Table(
    {"id", "dictionary_id", "abbreviation", "category", "unresolved",
     "created_at", "updated_at", "created_by", "updated_by"},
    {"full_form", "language_code", "note"},
    {Key("dictionary_id", "dictionaries", "CASCADE"),
     Key("created_by", "users", "CASCADE"),
     Key("updated_by", "users", "CASCADE")},
    {{"id"}},
    {OneOf("dictionary_abbreviation_category", "category", {"part_of_speech",
       "grammar", "usage", "geography", "source", "other"})}, {{"dictionary_id"}})

dictionary_abbreviation_variants ==
  Table(
    {"id", "abbreviation_id", "variant_text", "position"}, {},
    {Key("abbreviation_id", "dictionary_abbreviations", "CASCADE")}, {{"id"}}, {},
      {{"abbreviation_id"}})

dictionary_settlement_mappings ==
  Table(
    {"id", "dictionary_id", "source_label", "status", "created_at", "updated_at",
     "created_by", "updated_by"},
    {"source_note", "district", "modern_settlement_name", "settlement_category",
     "area_id", "region_id", "community_id", "settlement_id",
     "community_geometry_id", "area_name", "region_name", "community_name",
     "external_community_id", "katottg", "koatuu", "confirmed_by", "confirmed_at"},
    {Key("dictionary_id", "dictionaries", "CASCADE"),
     Key("area_id", "geography_areas", "SET NULL"),
     Key("region_id", "geography_regions", "SET NULL"),
     Key("community_id", "geography_communities", "SET NULL"),
     Key("settlement_id", "geography_settlements", "SET NULL"),
     Key("community_geometry_id", "geography_community_geometries", "SET NULL"),
     Key("confirmed_by", "users", "SET NULL"),
     Key("created_by", "users", "CASCADE"),
     Key("updated_by", "users", "CASCADE")},
    {{"id"}},
    {OneOf("dictionary_settlement_mapping_status", "status", {"unresolved",
       "suggested", "confirmed"})}, {{"dictionary_id"}})

dictionary_source_files ==
  Table(
    {"id", "dictionary_id", "original_filename", "mime_type", "byte_size",
     "checksum_sha256", "storage_key", "uploaded_at", "uploaded_by",
     "inspection_status", "pages_status"},
    {"page_count", "inspection_error", "pages_error"},
    {Key("dictionary_id", "dictionaries", "CASCADE"),
     Key("uploaded_by", "users", "CASCADE")},
    {{"id"}, {"dictionary_id"}, {"storage_key"}},
    {OneOf("source_file_inspection_status", "inspection_status", {"pending",
       "verified", "failed"}),
     OneOf("source_file_pages_status", "pages_status", {"pending", "completed",
       "failed"})}, {{"checksum_sha256"}})

dictionary_pages ==
  Table(
    {"id", "source_file_id", "page_index", "processed_asset_key", "width",
     "height", "rotation", "checksum_sha256", "ocr_status", "layout_status",
     "validation_status", "created_at"},
    {"printed_page_number"},
    {Key("source_file_id", "dictionary_source_files", "CASCADE")},
    {{"id"}, {"processed_asset_key"}, {"source_file_id", "page_index"}},
    {OneOf("dictionary_page_ocr_status", "ocr_status", {"pending", "processing",
       "completed", "failed"}),
     OneOf("dictionary_page_layout_status", "layout_status", {"pending",
       "processing", "completed", "failed"}),
     OneOf("dictionary_page_validation_status", "validation_status", {"pending",
       "processing", "completed", "failed"})}, {{"source_file_id"}})

dictionary_events ==
  Table(
    {"id", "dictionary_id", "event_type", "actor_user_id", "occurred_at",
     "changed_fields"},
    {"previous_status", "new_status", "reason"},
    {Key("dictionary_id", "dictionaries", "CASCADE"),
     Key("actor_user_id", "users", "CASCADE")},
    {{"id"}},
    {OneOf("dictionary_event_type", "event_type", {"created", "source_uploaded",
       "metadata_updated", "status_changed"}),
     OneOf("dictionary_event_previous_status", "previous_status", {"draft",
       "configured", "scanned", "in_progress", "processed", "published"}),
     OneOf("dictionary_event_new_status", "new_status", {"draft", "configured",
       "scanned", "in_progress", "processed", "published"})}, {{"dictionary_id"},
         {"occurred_at"}})

lexemes ==
  Table(
    {"id", "dictionary_id", "page_id", "source_text", "x", "y", "width", "height",
     "origin", "created_at", "created_by", "updated_at", "updated_by", "status"},
    {"x2", "y2", "width2", "height2"},
    {Key("dictionary_id", "dictionaries", "CASCADE"),
     Key("page_id", "dictionary_pages", "CASCADE"),
     Key("created_by", "users", "CASCADE"),
     Key("updated_by", "users", "CASCADE")},
    {{"id"}},
    {OneOf("lexeme_origin", "origin", {"manual", "ocr"}),
     OneOf("lexeme_status", "status", {"draft", "ready_to_process",
       "ready_to_review", "complete"}),
     Rule("lexeme_positive_size", {"width", "height"}),
     Rule("lexeme_second_box_all_or_none", {"x2", "y2", "width2", "height2"}),
     Rule("lexeme_second_box_positive_size", {"width2", "height2"})}, {{"dictionary_id"},
       {"page_id"}})

lexeme_events ==
  Table(
    {"id", "lexeme_id", "dictionary_id", "event_type", "actor_user_id",
     "occurred_at", "changed_fields"},
    {},
    {Key("dictionary_id", "dictionaries", "CASCADE"),
     Key("actor_user_id", "users", "CASCADE")},
    {{"id"}}, {OneOf("lexeme_event_type", "event_type", {"updated", "deleted"})},
      {{"dictionary_id"}, {"lexeme_id"}, {"occurred_at"}})

article_schemas ==
  Table(
    {"id", "dictionary_id", "version", "status", "source_description",
     "definition", "created_at", "created_by"},
    {"raw_provider_response", "provider_name", "error_message",
     "presentation_formula", "activated_at", "activated_by"},
    {Key("dictionary_id", "dictionaries", "CASCADE"),
     Key("created_by", "users", "CASCADE"),
     Key("activated_by", "users", "CASCADE")},
    {{"id"}, {"dictionary_id", "version"}},
    {OneOf("article_schema_status", "status", {"pending", "running", "ready",
       "failed"})}, {{"dictionary_id"}})

dictionary_entries ==
  Table(
    {"id", "dictionary_id", "lexeme_id", "headword", "status", "created_at",
     "created_by", "updated_at", "updated_by"},
    {"schema_id"},
    {Key("dictionary_id", "dictionaries", "CASCADE"),
     Key("lexeme_id", "lexemes", "CASCADE"),
     Key("schema_id", "article_schemas", "SET NULL"),
     Key("created_by", "users", "CASCADE"),
     Key("updated_by", "users", "CASCADE")},
    {{"id"}, {"lexeme_id"}},
    {OneOf("dictionary_entry_status", "status", {"draft", "ready_to_review",
       "complete"})}, {{"dictionary_id"}})

entry_fragments ==
  Table(
    {"id", "entry_id", "page_id", "x", "y", "width", "height", "reading_order",
     "recognized_text"},
    {"x2", "y2", "width2", "height2"},
    {Key("entry_id", "dictionary_entries", "CASCADE"),
     Key("page_id", "dictionary_pages", "CASCADE")},
    {{"id"}}, {Rule("entry_fragment_positive_size", {"width", "height"})}, {{"entry_id"},
      {"page_id"}})

entry_fields ==
  Table(
    {"id", "entry_id", "fragment_id", "field_path", "role", "position",
     "source_text", "origin", "created_at", "created_by", "updated_at",
     "updated_by"},
    {"parent_field_id", "normalized_text", "confidence", "processing_run_id",
     "source_start", "source_end", "x", "y", "width", "height",
     "settlement_mapping_id"},
    {Key("entry_id", "dictionary_entries", "CASCADE"),
     Key("fragment_id", "entry_fragments", "CASCADE"),
     Key("parent_field_id", "entry_fields", "CASCADE"),
     Key("settlement_mapping_id", "dictionary_settlement_mappings", "SET NULL"),
     Key("created_by", "users", "CASCADE"),
     Key("updated_by", "users", "CASCADE")},
    {{"id"}},
    {OneOf("entry_field_role", "role", {"headword", "part_of_speech", "meaning",
       "example", "synonym", "abbreviation", "geographic_label", "other"}),
     OneOf("entry_field_origin", "origin", {"model", "rule", "manual"}),
     Rule("entry_field_positive_span", {"source_end", "source_start"})}, {{"entry_id"},
       {"fragment_id"}, {"parent_field_id"}})

geography_areas ==
  Table(
    {"id", "external_id", "name", "last_synced_at"}, {}, {},
    {{"id"}, {"external_id"}}, {}, {})

geography_regions ==
  Table(
    {"id", "external_id", "name", "area_id", "last_synced_at"}, {},
    {Key("area_id", "geography_areas", "CASCADE")}, {{"id"}, {"external_id"}}, {},
      {{"area_id"}})

geography_communities ==
  Table(
    {"id", "external_id", "name", "area_id", "region_id", "last_synced_at"},
    {"katottg", "koatuu", "admin_center_name", "website", "indicators", "budgets"},
    {Key("area_id", "geography_areas", "CASCADE"),
     Key("region_id", "geography_regions", "CASCADE")},
    {{"id"}, {"external_id"}}, {}, {{"area_id"}, {"region_id"}})

geography_settlements ==
  Table(
    {"id", "community_id", "title", "category"}, {},
    {Key("community_id", "geography_communities", "CASCADE")},
    {{"id"}, {"community_id", "title", "category"}}, {}, {{"community_id"}})

geography_community_geometries ==
  Table(
    {"id", "community_id", "geometry_type", "geometry", "fetched_at"}, {},
    {Key("community_id", "geography_communities", "CASCADE")},
    {{"id"}, {"community_id"}}, {}, {})

geography_sync_runs ==
  Table(
    {"id", "entity_type", "source", "started_at", "status", "records_synced",
     "records_failed"},
    {"completed_at", "error_message"}, {}, {{"id"}}, {}, {})

project_memberships ==
  Table(
    {"id", "dictionary_id", "user_id", "role", "created_at", "created_by",
     "updated_at", "updated_by"},
    {},
    {Key("dictionary_id", "dictionaries", "CASCADE"),
     Key("user_id", "users", "CASCADE"),
     Key("created_by", "users", "CASCADE"),
     Key("updated_by", "users", "CASCADE")},
    {{"id"}, {"dictionary_id", "user_id"}},
    {OneOf("project_membership_role", "role", {"editor", "reviewer", "viewer"})},
      {{"dictionary_id"}, {"user_id"}})

review_events ==
  Table(
    {"id", "entry_id", "dictionary_id", "decision", "reviewer_user_id",
     "occurred_at"},
    {"note"},
    {Key("dictionary_id", "dictionaries", "CASCADE"),
     Key("reviewer_user_id", "users", "CASCADE")},
    {{"id"}},
    {OneOf("review_event_decision", "decision", {"approved", "sent_back"})},
      {{"dictionary_id"}, {"entry_id"}, {"occurred_at"}})

reference_lexicons ==
  Table(
    {"id", "code", "name", "language_code", "version", "source_url", "license_id",
     "checksum", "imported_at", "is_active"},
    {"source_commit"}, {}, {{"id"}, {"code"}}, {}, {})

reference_lemmas ==
  Table(
    {"id", "lexicon_id", "external_key", "lemma", "normalized_lemma",
     "part_of_speech", "key_tags", "is_standard", "is_active"},
    {}, {Key("lexicon_id", "reference_lexicons", "CASCADE")},
    {{"id"}, {"lexicon_id", "external_key"}}, {}, {{"lexicon_id"}, {"normalized_lemma"}})

reference_word_forms ==
  Table(
    {"id", "lemma_id", "form", "normalized_form", "morphology", "morphology_tags",
     "morphology_features", "is_standard", "is_active"},
    {}, {Key("lemma_id", "reference_lemmas", "CASCADE")}, {{"id"}}, {}, {{"lemma_id"},
      {"normalized_form"}})

entry_reference_links ==
  Table(
    {"id", "entry_id", "reference_lemma_id", "relation_type", "origin",
     "validation_status", "created_at", "created_by"},
    {"confidence"},
    {Key("entry_id", "dictionary_entries", "CASCADE"),
     Key("reference_lemma_id", "reference_lemmas", "RESTRICT"),
     Key("created_by", "users", "CASCADE")},
    {{"id"}, {"entry_id", "reference_lemma_id", "relation_type"}},
    {OneOf("entry_reference_link_relation_type", "relation_type",
       {"standard_equivalent", "synonym", "approximate_equivalent", "hypernym",
       "related"}),
     OneOf("entry_reference_link_origin", "origin", {"manual"}),
     OneOf("entry_reference_link_validation_status", "validation_status",
       {"confirmed"}),
     Rule("entry_reference_link_confidence", {"confidence"})}, {{"entry_id"},
       {"reference_lemma_id"}})

processing_tasks ==
  Table(
    {"id", "dictionary_id", "kind", "celery_task_id", "status", "rerun_params",
     "enqueued_by", "created_at", "updated_at"},
    {"target_id", "target_label", "error", "result", "retry_of_id", "started_at",
     "finished_at"},
    {Key("dictionary_id", "dictionaries", "CASCADE"),
     Key("enqueued_by", "users", "CASCADE"),
     Key("retry_of_id", "processing_tasks", "SET NULL")},
    {{"id"}, {"celery_task_id"}}, {}, {{"dictionary_id"}})

MappedTables ==
  [users |-> users,
   email_verification_tokens |-> verification_tokens,
   password_reset_tokens |-> password_reset_tokens,
   email_change_tokens |-> email_change_tokens,
   authenticated_sessions |-> authenticated_sessions,
   google_identities |-> google_identities,
   dictionaries |-> dictionaries,
   dictionary_contributors |-> dictionary_contributors,
   dictionary_languages |-> dictionary_languages,
   dictionary_page_ranges |-> dictionary_page_ranges,
   dictionary_abbreviations |-> dictionary_abbreviations,
   dictionary_abbreviation_variants |-> dictionary_abbreviation_variants,
   dictionary_settlement_mappings |-> dictionary_settlement_mappings,
   dictionary_source_files |-> dictionary_source_files,
   dictionary_pages |-> dictionary_pages,
   dictionary_events |-> dictionary_events,
   lexemes |-> lexemes,
   lexeme_events |-> lexeme_events,
   article_schemas |-> article_schemas,
   dictionary_entries |-> dictionary_entries,
   entry_fragments |-> entry_fragments,
   entry_fields |-> entry_fields,
   geography_areas |-> geography_areas,
   geography_regions |-> geography_regions,
   geography_communities |-> geography_communities,
   geography_settlements |-> geography_settlements,
   geography_community_geometries |-> geography_community_geometries,
   geography_sync_runs |-> geography_sync_runs,
   project_memberships |-> project_memberships,
   review_events |-> review_events,
   reference_lexicons |-> reference_lexicons,
   reference_lemmas |-> reference_lemmas,
   reference_word_forms |-> reference_word_forms,
   entry_reference_links |-> entry_reference_links,
   processing_tasks |-> processing_tasks]

--------------------------------------------------------------------------------
(* The enumerations. *)

AccountStatus == {"pending_verification", "active"}

DictionaryStatus ==
  {"draft", "configured", "scanned", "in_progress", "processed", "published"}

LegalStatus ==
  {"public_domain", "licensed", "permission_granted", "restricted", "unknown"}

ContributorRole == {"author", "compiler"}

AbbreviationCategory ==
  {"part_of_speech", "grammar", "usage", "geography", "source", "other"}

SettlementMappingStatus == {"unresolved", "suggested", "confirmed"}

InspectionStatus == {"pending", "verified", "failed"}

PagesStatus == {"pending", "completed", "failed"}

PageProcessingStatus == {"pending", "processing", "completed", "failed"}

DictionaryEventType ==
  {"created", "source_uploaded", "metadata_updated", "status_changed"}

LexemeOrigin == {"manual", "ocr"}

LexemeStatus == {"draft", "ready_to_process", "ready_to_review", "complete"}

LexemeEventType == {"updated", "deleted"}

SchemaGenerationStatus == {"pending", "running", "ready", "failed"}

EntryStatus == {"draft", "ready_to_review", "complete"}

EntryFieldRole ==
  {"headword", "part_of_speech", "meaning", "example", "synonym", "abbreviation",
   "geographic_label", "other"}

EntryFieldOrigin == {"model", "rule", "manual"}

ReviewDecision == {"approved", "sent_back"}

ReferenceRelationType ==
  {"standard_equivalent", "synonym", "approximate_equivalent", "hypernym", "related"}

ReferenceLinkOrigin == {"manual"}

ReferenceLinkStatus == {"confirmed"}

ProcessingTaskKind ==
  {"dictionary_scan", "entry_extraction", "article_schema_generation", "ocr_suggestions"}

ProcessingTaskStatus == {"queued", "running", "succeeded", "failed"}

GeographyEntityType == {"area", "region", "community", "geometry"}

GeographySyncStatus == {"pending", "succeeded", "partial", "failed"}

ASSIGNABLE_ROLES == {"editor", "reviewer", "viewer"}

(* Which column holds which. *)
Held(table, column, values) == [table |-> table, column |-> column, values |-> values]

HeldValues ==
  {Held("users", "status", AccountStatus),
   Held("dictionaries", "status", DictionaryStatus),
   Held("dictionaries", "legal_status", LegalStatus \union {NULL}),
   Held("dictionary_contributors", "role", ContributorRole),
   Held("dictionary_abbreviations", "category", AbbreviationCategory),
   Held("dictionary_settlement_mappings", "status", SettlementMappingStatus),
   Held("dictionary_source_files", "inspection_status", InspectionStatus),
   Held("dictionary_source_files", "pages_status", PagesStatus),
   Held("dictionary_pages", "ocr_status", PageProcessingStatus),
   Held("dictionary_pages", "layout_status", PageProcessingStatus),
   Held("dictionary_pages", "validation_status", PageProcessingStatus),
   Held("dictionary_events", "event_type", DictionaryEventType),
   Held("dictionary_events", "previous_status", DictionaryStatus \union {NULL}),
   Held("dictionary_events", "new_status", DictionaryStatus \union {NULL}),
   Held("lexemes", "origin", LexemeOrigin),
   Held("lexemes", "status", LexemeStatus),
   Held("lexeme_events", "event_type", LexemeEventType),
   Held("article_schemas", "status", SchemaGenerationStatus),
   Held("dictionary_entries", "status", EntryStatus),
   Held("entry_fields", "role", EntryFieldRole),
   Held("entry_fields", "origin", EntryFieldOrigin),
   Held("project_memberships", "role", ASSIGNABLE_ROLES),
   Held("review_events", "decision", ReviewDecision),
   Held("entry_reference_links", "relation_type", ReferenceRelationType),
   Held("entry_reference_links", "origin", ReferenceLinkOrigin),
   Held("entry_reference_links", "validation_status", ReferenceLinkStatus),
   Held("geography_sync_runs", "entity_type", GeographyEntityType),
   Held("geography_sync_runs", "status", GeographySyncStatus),
   Held("processing_tasks", "kind", ProcessingTaskKind),
   Held("processing_tasks", "status", ProcessingTaskStatus)}
================================================================================
