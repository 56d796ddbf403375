------------------------------ MODULE Revisions ------------------------------
(***************************************************************************)
(* The scripts of migrations/versions: for each revision the revisions it     *)
(* comes after, what its upgrade runs and what its downgrade runs.           *)
(***************************************************************************)
EXTENDS DatabaseSchema

(* Create the Cadmus application schema *)
bh179_0001 ==
  [after |-> {},
   upgrade |-> <<CreateSchema>>,
   downgrade |-> <<DropSchema>>]

(* Create identity users and email verification tokens *)
bh5_0002 ==
  [after |-> {"bh179_0001"},
   upgrade |->
     <<CreateTable("users",
         {"id", "email", "password_hash", "status", "created_at"}, {"activated_at"}, {},
         {{"id"}, {"email"}},
         {OneOf("account_status", "status", {"pending_verification", "active"})}),
       CreateTable("email_verification_tokens",
         {"id", "user_id", "token_digest", "expires_at", "created_at"}, {"consumed_at"},
         {Key("user_id", "users", "CASCADE")}, {{"id"}, {"token_digest"}}, {}),
       CreateIndex("email_verification_tokens", {"user_id"})>>,
   downgrade |->
     <<DropIndex("email_verification_tokens", {"user_id"}),
       DropTable("email_verification_tokens"),
       DropTable("users")>>]

(* Create server-side authenticated sessions *)
bh3_0003 ==
  [after |-> {"bh5_0002"},
   upgrade |->
     <<CreateTable("authenticated_sessions",
         {"id", "user_id", "token_digest", "expires_at", "created_at"}, {},
         {Key("user_id", "users", "CASCADE")}, {{"id"}, {"token_digest"}}, {}),
       CreateIndex("authenticated_sessions", {"user_id"}),
       CreateIndex("authenticated_sessions", {"expires_at"})>>,
   downgrade |->
     <<DropIndex("authenticated_sessions", {"expires_at"}),
       DropIndex("authenticated_sessions", {"user_id"}),
       DropTable("authenticated_sessions")>>]

(* Create password reset tokens *)
bh10_0004 ==
  [after |-> {"bh3_0003"},
   upgrade |->
     <<CreateTable("password_reset_tokens",
         {"id", "user_id", "token_digest", "expires_at", "created_at"}, {"consumed_at"},
         {Key("user_id", "users", "CASCADE")}, {{"id"}, {"token_digest"}}, {}),
       CreateIndex("password_reset_tokens", {"user_id"})>>,
   downgrade |->
     <<DropIndex("password_reset_tokens", {"user_id"}),
       DropTable("password_reset_tokens")>>]

(* Create dictionary draft, source file, metadata, and audit tables *)
upgrade_bh26_0005 ==
  <<CreateTable("dictionaries",
      {"id", "owner_id", "status", "created_at", "updated_at", "updated_by"},
      {"title", "description", "dictionary_type", "publisher", "publication_year",
       "edition", "isbn", "digital_source", "legal_status", "license_type",
       "permission_reference", "rights_note"},
      {Key("owner_id", "users", "CASCADE"), Key("updated_by", "users", "CASCADE")},
      {{"id"}},
      {OneOf("dictionary_status", "status", {"draft", "configured"}),
       OneOf("dictionary_legal_status", "legal_status", {"public_domain",
         "licensed", "permission_granted", "restricted", "unknown"})}),
    CreateIndex("dictionaries", {"owner_id"}),
    CreateTable("dictionary_contributors",
      {"id", "dictionary_id", "name", "role", "position"}, {},
      {Key("dictionary_id", "dictionaries", "CASCADE")},
      {{"id"}, {"dictionary_id", "position"}},
      {OneOf("contributor_role", "role", {"author", "compiler"})}),
    CreateIndex("dictionary_contributors", {"dictionary_id"}),
    CreateTable("dictionary_languages",
      {"id", "dictionary_id", "language_code", "position"}, {},
      {Key("dictionary_id", "dictionaries", "CASCADE")},
      {{"id"}, {"dictionary_id", "language_code"}, {"dictionary_id", "position"}},
      {}),
    CreateIndex("dictionary_languages", {"dictionary_id"}),
    CreateTable("dictionary_source_files",
      {"id", "dictionary_id", "original_filename", "mime_type", "byte_size",
       "checksum_sha256", "storage_key", "uploaded_at", "uploaded_by",
       "inspection_status"},
      {"page_count", "inspection_error"},
      {Key("dictionary_id", "dictionaries", "CASCADE"),
       Key("uploaded_by", "users", "CASCADE")},
      {{"id"}, {"dictionary_id"}, {"storage_key"}},
      {OneOf("source_file_inspection_status", "inspection_status", {"pending",
         "verified", "failed"})}),
    CreateIndex("dictionary_source_files", {"checksum_sha256"}),
    CreateTable("dictionary_events",
      {"id", "dictionary_id", "event_type", "actor_user_id", "occurred_at",
       "changed_fields"},
      {},
      {Key("actor_user_id", "users", "CASCADE"),
       Key("dictionary_id", "dictionaries", "CASCADE")},
      {{"id"}},
      {OneOf("dictionary_event_type", "event_type", {"created", "source_uploaded",
         "metadata_updated"})}),
    CreateIndex("dictionary_events", {"dictionary_id"}),
    CreateIndex("dictionary_events", {"occurred_at"})>>

bh26_0005 ==
  [after |-> {"bh10_0004"},
   upgrade |-> upgrade_bh26_0005,
   downgrade |->
     <<DropIndex("dictionary_events", {"occurred_at"}),
       DropIndex("dictionary_events", {"dictionary_id"}),
       DropTable("dictionary_events"),
       DropIndex("dictionary_source_files", {"checksum_sha256"}),
       DropTable("dictionary_source_files"),
       DropIndex("dictionary_languages", {"dictionary_id"}),
       DropTable("dictionary_languages"),
       DropIndex("dictionary_contributors", {"dictionary_id"}),
       DropTable("dictionary_contributors"),
       DropIndex("dictionaries", {"owner_id"}),
       DropTable("dictionaries")>>]

(* Create dictionary_pages and page-split tracking on dictionary_source_files *)
bh26_0006 ==
  [after |-> {"bh26_0005"},
   upgrade |->
     <<AddFilledColumn("dictionary_source_files", "pages_status"),
       AddColumn("dictionary_source_files", "pages_error"),
       AddCheck("dictionary_source_files",
         OneOf("source_file_pages_status", "pages_status", {"pending", "completed",
           "failed"})),
       CreateTable("dictionary_pages",
         {"id", "source_file_id", "page_index", "processed_asset_key", "width",
          "height", "rotation", "checksum_sha256", "ocr_status", "layout_status",
          "validation_status", "created_at"},
         {"printed_page_number"},
         {Key("source_file_id", "dictionary_source_files", "CASCADE")},
         {{"id"}, {"source_file_id", "page_index"}, {"processed_asset_key"}},
         {OneOf("dictionary_page_ocr_status", "ocr_status", {"pending", "processing",
            "completed", "failed"}),
          OneOf("dictionary_page_layout_status", "layout_status", {"pending",
            "processing", "completed", "failed"}),
          OneOf("dictionary_page_validation_status", "validation_status", {"pending",
            "processing", "completed", "failed"})}),
       CreateIndex("dictionary_pages", {"source_file_id"})>>,
   downgrade |->
     <<DropIndex("dictionary_pages", {"source_file_id"}),
       DropTable("dictionary_pages"),
       DropCheck("dictionary_source_files", "source_file_pages_status"),
       DropColumn("dictionary_source_files", "pages_error"),
       DropColumn("dictionary_source_files", "pages_status")>>]

(* Create dictionary_abbreviations and dictionary_abbreviation_variants *)
bh29_0007 ==
  [after |-> {"bh26_0006"},
   upgrade |->
     <<CreateTable("dictionary_abbreviations",
         {"id", "dictionary_id", "abbreviation", "category", "unresolved",
          "created_at", "updated_at", "created_by", "updated_by"},
         {"full_form", "language_code", "note"},
         {Key("dictionary_id", "dictionaries", "CASCADE"),
          Key("created_by", "users", "CASCADE"),
          Key("updated_by", "users", "CASCADE")},
         {{"id"}},
         {OneOf("dictionary_abbreviation_category", "category", {"part_of_speech",
            "grammar", "usage", "geography", "source", "other"})}),
       CreateIndex("dictionary_abbreviations", {"dictionary_id"}),
       CreateTable("dictionary_abbreviation_variants",
         {"id", "abbreviation_id", "variant_text", "position"}, {},
         {Key("abbreviation_id", "dictionary_abbreviations", "CASCADE")}, {{"id"}}, {}),
       CreateIndex("dictionary_abbreviation_variants", {"abbreviation_id"})>>,
   downgrade |->
     <<DropIndex("dictionary_abbreviation_variants", {"abbreviation_id"}),
       DropTable("dictionary_abbreviation_variants"),
       DropIndex("dictionary_abbreviations", {"dictionary_id"}),
       DropTable("dictionary_abbreviations")>>]

(* Create BH-30 geography reference-data tables *)
upgrade_bh30_0008 ==
  <<CreateTable("geography_areas",
      {"id", "external_id", "name", "last_synced_at"}, {}, {},
      {{"id"}, {"external_id"}}, {}),
    CreateTable("geography_regions",
      {"id", "external_id", "name", "area_id", "last_synced_at"}, {},
      {Key("area_id", "geography_areas", "CASCADE")}, {{"id"}, {"external_id"}}, {}),
    CreateIndex("geography_regions", {"area_id"}),
    CreateTable("geography_communities",
      {"id", "external_id", "name", "area_id", "region_id", "last_synced_at"},
      {"katottg", "koatuu", "admin_center_name", "website", "indicators", "budgets"},
      {Key("area_id", "geography_areas", "CASCADE"),
       Key("region_id", "geography_regions", "CASCADE")},
      {{"id"}, {"external_id"}}, {}),
    CreateIndex("geography_communities", {"area_id"}),
    CreateIndex("geography_communities", {"region_id"}),
    CreateTable("geography_settlements",
      {"id", "community_id", "title", "category"}, {},
      {Key("community_id", "geography_communities", "CASCADE")},
      {{"id"}, {"community_id", "title", "category"}}, {}),
    CreateIndex("geography_settlements", {"community_id"}),
    CreateTable("geography_community_geometries",
      {"id", "community_id", "geometry_type", "geometry", "fetched_at"}, {},
      {Key("community_id", "geography_communities", "CASCADE")},
      {{"id"}, {"community_id"}}, {}),
    CreateTable("geography_sync_runs",
      {"id", "entity_type", "source", "started_at", "status", "records_synced",
       "records_failed"},
      {"completed_at", "error_message"}, {}, {{"id"}},
      {OneOf("geography_sync_run_entity_type", "entity_type", {"area", "region",
         "community", "geometry"}),
       OneOf("geography_sync_run_status", "status", {"pending", "succeeded",
         "partial", "failed"})})>>

bh30_0008 ==
  [after |-> {"bh29_0007"},
   upgrade |-> upgrade_bh30_0008,
   downgrade |->
     <<DropTable("geography_sync_runs"),
       DropTable("geography_community_geometries"),
       DropIndex("geography_settlements", {"community_id"}),
       DropTable("geography_settlements"),
       DropIndex("geography_communities", {"region_id"}),
       DropIndex("geography_communities", {"area_id"}),
       DropTable("geography_communities"),
       DropIndex("geography_regions", {"area_id"}),
       DropTable("geography_regions"),
       DropTable("geography_areas")>>]

(* Create BH-30 dictionary settlement mapping table *)
bh30_0009 ==
  [after |-> {"bh30_0008"},
   upgrade |->
     <<CreateTable("dictionary_settlement_mappings",
         {"id", "dictionary_id", "source_label", "status", "created_at", "updated_at",
          "created_by", "updated_by"},
         {"source_note", "modern_settlement_name", "settlement_category", "area_id",
          "region_id", "community_id", "settlement_id", "community_geometry_id",
          "area_name", "region_name", "community_name", "external_community_id",
          "katottg", "koatuu", "confirmed_by", "confirmed_at"},
         {Key("dictionary_id", "dictionaries", "CASCADE"),
          Key("area_id", "geography_areas", "SET NULL"),
          Key("region_id", "geography_regions", "SET NULL"),
          Key("community_id", "geography_communities", "SET NULL"),
          Key("settlement_id", "geography_settlements", "SET NULL"),
          Key("community_geometry_id", "geography_community_geometries", "SET NULL"),
          Key("confirmed_by", "users", "SET NULL"),
          Key("created_by", "users", "CASCADE"),
          Key("updated_by", "users", "CASCADE")},
         {{"id"}},
         {OneOf("dictionary_settlement_mapping_status", "status", {"unresolved",
            "suggested", "confirmed"})}),
       CreateIndex("dictionary_settlement_mappings", {"dictionary_id"})>>,
   downgrade |->
     <<DropIndex("dictionary_settlement_mappings", {"dictionary_id"}),
       DropTable("dictionary_settlement_mappings")>>]

(* Add BH-31 status-transition audit columns to dictionary_events *)
bh31_0010 ==
  [after |-> {"bh30_0009"},
   upgrade |->
     <<AddColumn("dictionary_events", "previous_status"),
       AddColumn("dictionary_events", "new_status"),
       AddColumn("dictionary_events", "reason"),
       DropCheck("dictionary_events", "dictionary_event_type"),
       AddCheck("dictionary_events",
         OneOf("dictionary_event_type", "event_type", {"created", "source_uploaded",
           "metadata_updated", "status_changed"})),
       AddCheck("dictionary_events",
         OneOf("dictionary_event_previous_status", "previous_status", {"draft",
           "configured"})),
       AddCheck("dictionary_events",
         OneOf("dictionary_event_new_status", "new_status", {"draft", "configured"}))>>,
   downgrade |->
     <<DropCheck("dictionary_events", "dictionary_event_new_status"),
       DropCheck("dictionary_events", "dictionary_event_previous_status"),
       DropCheck("dictionary_events", "dictionary_event_type"),
       AddCheck("dictionary_events",
         OneOf("dictionary_event_type", "event_type", {"created", "source_uploaded",
           "metadata_updated"})),
       DropColumn("dictionary_events", "reason"),
       DropColumn("dictionary_events", "new_status"),
       DropColumn("dictionary_events", "previous_status")>>]

(* Create BH-28 dictionary page range table *)
bh28_0011 ==
  [after |-> {"bh31_0010"},
   upgrade |->
     <<CreateTable("dictionary_page_ranges",
         {"id", "dictionary_id", "start_page", "end_page", "position"}, {},
         {Key("dictionary_id", "dictionaries", "CASCADE")}, {{"id"}},
         {Rule("dictionary_page_range_start_page", {"start_page"}),
          Rule("dictionary_page_range_end_page", {"end_page", "start_page"})}),
       CreateIndex("dictionary_page_ranges", {"dictionary_id"})>>,
   downgrade |->
     <<DropIndex("dictionary_page_ranges", {"dictionary_id"}),
       DropTable("dictionary_page_ranges")>>]

(* Add Google identities and allow password-less accounts *)
bh188_0012 ==
  [after |-> {"bh28_0011"},
   upgrade |->
     <<Relax("users", "password_hash"),
       CreateTable("google_identities",
         {"id", "user_id", "subject", "email", "created_at"}, {},
         {Key("user_id", "users", "CASCADE")}, {{"id"}, {"subject"}}, {}),
       CreateIndex("google_identities", {"user_id"})>>,
   downgrade |->
     <<DropIndex("google_identities", {"user_id"}),
       DropTable("google_identities"),
       Require("users", "password_hash")>>]

(* Create the BH-54 manual lexeme selection table *)
bh54_0013 ==
  [after |-> {"bh188_0012"},
   upgrade |->
     <<CreateTable("lexemes",
         {"id", "dictionary_id", "page_id", "source_text", "x", "y", "width", "height",
          "origin", "created_at", "created_by", "updated_at", "updated_by"},
         {},
         {Key("dictionary_id", "dictionaries", "CASCADE"),
          Key("page_id", "dictionary_pages", "CASCADE"),
          Key("created_by", "users", "CASCADE"),
          Key("updated_by", "users", "CASCADE")},
         {{"id"}},
         {OneOf("lexeme_origin", "origin", {"manual"}),
          Rule("lexeme_positive_size", {"width", "height"})}),
       CreateIndex("lexemes", {"dictionary_id"}),
       CreateIndex("lexemes", {"page_id"})>>,
   downgrade |->
     <<DropIndex("lexemes", {"page_id"}),
       DropIndex("lexemes", {"dictionary_id"}),
       DropTable("lexemes")>>]

(* Create the BH-56 lexeme edit/delete audit trail table *)
bh56_0014 ==
  [after |-> {"bh54_0013"},
   upgrade |->
     <<CreateTable("lexeme_events",
         {"id", "lexeme_id", "dictionary_id", "event_type", "actor_user_id",
          "occurred_at", "changed_fields"},
         {},
         {Key("dictionary_id", "dictionaries", "CASCADE"),
          Key("actor_user_id", "users", "CASCADE")},
         {{"id"}}, {OneOf("lexeme_event_type", "event_type", {"updated", "deleted"})}),
       CreateIndex("lexeme_events", {"lexeme_id"}),
       CreateIndex("lexeme_events", {"dictionary_id"}),
       CreateIndex("lexeme_events", {"occurred_at"})>>,
   downgrade |->
     <<DropIndex("lexeme_events", {"occurred_at"}),
       DropIndex("lexeme_events", {"dictionary_id"}),
       DropIndex("lexeme_events", {"lexeme_id"}),
       DropTable("lexeme_events")>>]

(* Add the BH-58 'scanned' dictionary status *)
bh58_0015 ==
  [after |-> {"bh56_0014"},
   upgrade |->
     <<DropCheck("dictionaries", "dictionary_status"),
       AddCheck("dictionaries",
         OneOf("dictionary_status", "status", {"draft", "configured", "scanned"})),
       DropCheck("dictionary_events", "dictionary_event_previous_status"),
       AddCheck("dictionary_events",
         OneOf("dictionary_event_previous_status", "previous_status", {"draft",
           "configured", "scanned"})),
       DropCheck("dictionary_events", "dictionary_event_new_status"),
       AddCheck("dictionary_events",
         OneOf("dictionary_event_new_status", "new_status", {"draft", "configured",
           "scanned"}))>>,
   downgrade |->
     <<DropCheck("dictionary_events", "dictionary_event_new_status"),
       AddCheck("dictionary_events",
         OneOf("dictionary_event_new_status", "new_status", {"draft", "configured"})),
       DropCheck("dictionary_events", "dictionary_event_previous_status"),
       AddCheck("dictionary_events",
         OneOf("dictionary_event_previous_status", "previous_status", {"draft",
           "configured"})),
       DropCheck("dictionaries", "dictionary_status"),
       AddCheck("dictionaries",
         OneOf("dictionary_status", "status", {"draft", "configured"}))>>]

(* Allow 'ocr' as a lexeme origin (OCR-suggested lexemes) *)
ocr_0016 ==
  [after |-> {"bh58_0015"},
   upgrade |->
     <<DropCheck("lexemes", "lexeme_origin"),
       AddCheck("lexemes",
         OneOf("lexeme_origin", "origin", {"manual", "ocr"}))>>,
   downgrade |->
     <<DropCheck("lexemes", "lexeme_origin"),
       AddCheck("lexemes",
         OneOf("lexeme_origin", "origin", {"manual"}))>>]

(* Add an optional second bounding box to lexemes (entries split across a column) *)
box2_0017 ==
  [after |-> {"ocr_0016"},
   upgrade |->
     <<AddColumn("lexemes", "x2"),
       AddColumn("lexemes", "y2"),
       AddColumn("lexemes", "width2"),
       AddColumn("lexemes", "height2"),
       AddCheck("lexemes",
         Rule("lexeme_second_box_all_or_none", {"x2", "y2", "width2", "height2"})),
       AddCheck("lexemes",
         Rule("lexeme_second_box_positive_size", {"width2", "height2"}))>>,
   downgrade |->
     <<DropCheck("lexemes", "lexeme_second_box_positive_size"),
       DropCheck("lexemes", "lexeme_second_box_all_or_none"),
       DropColumn("lexemes", "height2"),
       DropColumn("lexemes", "width2"),
       DropColumn("lexemes", "y2"),
       DropColumn("lexemes", "x2")>>]

(* Add an optional Telegram chat id to users, for the Telegram notification channel *)
notif_0018 ==
  [after |-> {"box2_0017"},
   upgrade |-> <<AddColumn("users", "telegram_chat_id")>>,
   downgrade |-> <<DropColumn("users", "telegram_chat_id")>>]

(* Create project_memberships for BH-170 role-based project access *)
bh170_0019 ==
  [after |-> {"notif_0018"},
   upgrade |->
     <<CreateTable("project_memberships",
         {"id", "dictionary_id", "user_id", "role", "created_at", "created_by",
          "updated_at", "updated_by"},
         {},
         {Key("dictionary_id", "dictionaries", "CASCADE"),
          Key("user_id", "users", "CASCADE"),
          Key("created_by", "users", "CASCADE"),
          Key("updated_by", "users", "CASCADE")},
         {{"id"}, {"dictionary_id", "user_id"}},
         {OneOf("project_membership_role", "role", {"editor", "reviewer", "viewer"})}),
       CreateIndex("project_memberships", {"dictionary_id"}),
       CreateIndex("project_memberships", {"user_id"})>>,
   downgrade |->
     <<DropIndex("project_memberships", {"user_id"}),
       DropIndex("project_memberships", {"dictionary_id"}),
       DropTable("project_memberships")>>]

(* Add the BH-113 lexeme status column *)
bh113_0020 ==
  [after |-> {"bh170_0019"},
   upgrade |->
     <<AddFilledColumn("lexemes", "status"),
       AddCheck("lexemes",
         OneOf("lexeme_status", "status", {"draft", "ready_to_process", "ready_to_review",
           "complete"}))>>,
   downgrade |->
     <<DropCheck("lexemes", "lexeme_status"),
       DropColumn("lexemes", "status")>>]

(* Add article_description to dictionaries (BH-148) *)
bh148_0021 ==
  [after |-> {"bh113_0020"},
   upgrade |-> <<AddColumn("dictionaries", "article_description")>>,
   downgrade |-> <<DropColumn("dictionaries", "article_description")>>]

(* Create article_schemas for BH-148 AI-generated article structure *)
bh148_0022 ==
  [after |-> {"bh148_0021"},
   upgrade |->
     <<CreateTable("article_schemas",
         {"id", "dictionary_id", "version", "status", "source_description",
          "definition", "created_at", "created_by"},
         {"raw_provider_response", "provider_name", "error_message", "activated_at",
          "activated_by"},
         {Key("dictionary_id", "dictionaries", "CASCADE"),
          Key("created_by", "users", "CASCADE"),
          Key("activated_by", "users", "CASCADE")},
         {{"id"}, {"dictionary_id", "version"}},
         {OneOf("article_schema_status", "status", {"pending", "running", "ready",
            "failed"})}),
       CreateIndex("article_schemas", {"dictionary_id"})>>,
   downgrade |->
     <<DropIndex("article_schemas", {"dictionary_id"}),
       DropTable("article_schemas")>>]

(* Create dictionary_entries for BH-148 (a lexeme promoted to an article) *)
bh148_0023 ==
  [after |-> {"bh148_0022"},
   upgrade |->
     <<CreateTable("dictionary_entries",
         {"id", "dictionary_id", "lexeme_id", "headword", "status", "created_at",
          "created_by", "updated_at", "updated_by"},
         {"schema_id"},
         {Key("dictionary_id", "dictionaries", "CASCADE"),
          Key("lexeme_id", "lexemes", "CASCADE"),
          Key("schema_id", "article_schemas", "SET NULL"),
          Key("created_by", "users", "CASCADE"),
          Key("updated_by", "users", "CASCADE")},
         {{"id"}, {"lexeme_id"}},
         {OneOf("dictionary_entry_status", "status", {"draft", "ready_to_review",
            "complete"})}),
       CreateIndex("dictionary_entries", {"dictionary_id"})>>,
   downgrade |->
     <<DropIndex("dictionary_entries", {"dictionary_id"}),
       DropTable("dictionary_entries")>>]

(* Create entry_fragments for BH-148 (ADR-0006 EntryFragment) *)
bh148_0024 ==
  [after |-> {"bh148_0023"},
   upgrade |->
     <<CreateTable("entry_fragments",
         {"id", "entry_id", "page_id", "x", "y", "width", "height", "reading_order",
          "recognized_text"},
         {"x2", "y2", "width2", "height2"},
         {Key("entry_id", "dictionary_entries", "CASCADE"),
          Key("page_id", "dictionary_pages", "CASCADE")},
         {{"id"}}, {Rule("entry_fragment_positive_size", {"width", "height"})}),
       CreateIndex("entry_fragments", {"entry_id"}),
       CreateIndex("entry_fragments", {"page_id"})>>,
   downgrade |->
     <<DropIndex("entry_fragments", {"page_id"}),
       DropIndex("entry_fragments", {"entry_id"}),
       DropTable("entry_fragments")>>]

(* Create entry_fields for BH-148: structured, provenance-tracked article fields *)
bh148_0025 ==
  [after |-> {"bh148_0024"},
   upgrade |->
     <<CreateTable("entry_fields",
         {"id", "entry_id", "fragment_id", "field_path", "role", "position",
          "source_text", "source_start", "source_end", "origin", "created_at",
          "created_by", "updated_at", "updated_by"},
         {"parent_field_id", "normalized_text", "confidence", "processing_run_id"},
         {Key("entry_id", "dictionary_entries", "CASCADE"),
          Key("fragment_id", "entry_fragments", "CASCADE"),
          Key("parent_field_id", "entry_fields", "CASCADE"),
          Key("created_by", "users", "CASCADE"),
          Key("updated_by", "users", "CASCADE")},
         {{"id"}},
         {OneOf("entry_field_role", "role", {"headword", "part_of_speech", "meaning",
            "example", "synonym", "abbreviation", "geographic_label", "other"}),
          OneOf("entry_field_origin", "origin", {"model", "rule", "manual"}),
          Rule("entry_field_positive_span", {"source_end", "source_start"})}),
       CreateIndex("entry_fields", {"entry_id"}),
       CreateIndex("entry_fields", {"fragment_id"}),
       CreateIndex("entry_fields", {"parent_field_id"})>>,
   downgrade |->
     <<DropIndex("entry_fields", {"parent_field_id"}),
       DropIndex("entry_fields", {"fragment_id"}),
       DropIndex("entry_fields", {"entry_id"}),
       DropTable("entry_fields")>>]

(* Add entry_field geometry for BH-148 ALTO segmentation (experimental variant 1) *)
bh148_0026 ==
  [after |-> {"bh148_0025"},
   upgrade |->
     <<AddColumn("entry_fields", "x"),
       AddColumn("entry_fields", "y"),
       AddColumn("entry_fields", "width"),
       AddColumn("entry_fields", "height"),
       Relax("entry_fields", "source_start"),
       Relax("entry_fields", "source_end")>>,
   downgrade |->
     <<Require("entry_fields", "source_end"),
       Require("entry_fields", "source_start"),
       DropColumn("entry_fields", "height"),
       DropColumn("entry_fields", "width"),
       DropColumn("entry_fields", "y"),
       DropColumn("entry_fields", "x")>>]

(* Add the in_progress / processed / published dictionary statuses *)
SetStatusConstraintsNewLeftOut(values) ==
  <<DropCheck("dictionaries", "dictionary_status"),
    AddCheck("dictionaries", OneOf("dictionary_status", "status", values)),
    DropCheck("dictionary_events", "dictionary_event_previous_status"),
    AddCheck("dictionary_events",
      OneOf("dictionary_event_previous_status", "previous_status", values))>>

SetStatusConstraints(values) ==
  <<DropCheck("dictionaries", "dictionary_status"),
    AddCheck("dictionaries", OneOf("dictionary_status", "status", values)),
    DropCheck("dictionary_events", "dictionary_event_previous_status"),
    AddCheck("dictionary_events",
      OneOf("dictionary_event_previous_status", "previous_status", values)),
    DropCheck("dictionary_events", "dictionary_event_new_status"),
    AddCheck("dictionary_events", OneOf("dictionary_event_new_status", "new_status",
      values))>>

bh190_0027 ==
  LET old == {"draft", "configured", "scanned"}
  IN  [after |-> {"bh148_0026"},
       upgrade |-> SetStatusConstraints(old \union {"in_progress", "processed",
         "published"}),
       downgrade |-> SetStatusConstraints(old)]

(* Create VESUM reference lexicon data and entry mappings *)
upgrade_vesum_0027 ==
  <<CreateTable("reference_lexicons",
      {"id", "code", "name", "language_code", "version", "source_url", "license_id",
       "checksum", "imported_at", "is_active"},
      {"source_commit"}, {}, {{"id"}, {"code"}}, {}),
    CreateTable("reference_lemmas",
      {"id", "lexicon_id", "external_key", "lemma", "normalized_lemma",
       "part_of_speech", "key_tags", "is_standard", "is_active"},
      {}, {Key("lexicon_id", "reference_lexicons", "CASCADE")},
      {{"id"}, {"lexicon_id", "external_key"}}, {}),
    CreateIndex("reference_lemmas", {"lexicon_id"}),
    CreateIndex("reference_lemmas", {"normalized_lemma"}),
    CreateTable("reference_word_forms",
      {"id", "lemma_id", "form", "normalized_form", "morphology", "morphology_tags",
       "morphology_features", "is_standard", "is_active"},
      {}, {Key("lemma_id", "reference_lemmas", "CASCADE")}, {{"id"}}, {}),
    CreateIndex("reference_word_forms", {"lemma_id"}),
    CreateIndex("reference_word_forms", {"normalized_form"}),
    CreateTable("entry_reference_links",
      {"id", "entry_id", "reference_lemma_id", "relation_type", "origin",
       "validation_status", "created_at", "created_by"},
      {"confidence"},
      {Key("created_by", "users", "CASCADE"),
       Key("entry_id", "dictionary_entries", "CASCADE"),
       Key("reference_lemma_id", "reference_lemmas", "RESTRICT")},
      {{"id"}, {"entry_id", "reference_lemma_id", "relation_type"}},
      {OneOf("ck_entry_reference_links_entry_reference_link_relation_type",
         "relation_type", {"standard_equivalent", "synonym",
         "approximate_equivalent", "hypernym", "related"}),
       OneOf("ck_entry_reference_links_entry_reference_link_origin", "origin",
         {"manual"}),
       OneOf("ck_entry_reference_links_entry_reference_link_validation_status",
         "validation_status", {"confirmed"}),
       Rule("ck_entry_reference_links_entry_reference_link_confidence",
         {"confidence"})}),
    CreateIndex("entry_reference_links", {"entry_id"}),
    CreateIndex("entry_reference_links", {"reference_lemma_id"})>>

vesum_0027 ==
  [after |-> {"bh148_0026"},
   upgrade |-> upgrade_vesum_0027,
   downgrade |->
     <<DropIndex("entry_reference_links", {"reference_lemma_id"}),
       DropIndex("entry_reference_links", {"entry_id"}),
       DropTable("entry_reference_links"),
       DropIndex("reference_word_forms", {"normalized_form"}),
       DropIndex("reference_word_forms", {"lemma_id"}),
       DropTable("reference_word_forms"),
       DropIndex("reference_lemmas", {"normalized_lemma"}),
       DropIndex("reference_lemmas", {"lexicon_id"}),
       DropTable("reference_lemmas"),
       DropTable("reference_lexicons")>>]

(* Merge the two 0027 heads into one lineage *)
merge_0028 ==
  [after |-> {"bh190_0027", "vesum_0027"},
   upgrade |-> <<>>,
   downgrade |-> <<>>]

(* Create the processing_tasks registry for async job monitoring *)
TaskKindsThen ==
  {"dictionary_scan", "entry_extraction", "article_schema_generation", "ocr_suggestions"}

TaskStatusesThen == {"queued", "running", "succeeded", "failed"}

proc_0029 ==
  [after |-> {"merge_0028"},
   upgrade |->
     <<CreateTable("processing_tasks",
         {"id", "dictionary_id", "kind", "celery_task_id", "status", "rerun_params",
          "enqueued_by", "created_at", "updated_at"},
         {"target_id", "target_label", "error", "result", "retry_of_id", "started_at",
          "finished_at"},
         {Key("dictionary_id", "dictionaries", "CASCADE"),
          Key("enqueued_by", "users", "CASCADE"),
          Key("retry_of_id", "processing_tasks", "SET NULL")},
         {{"id"}, {"celery_task_id"}},
         {OneOf("ck_processing_tasks_kind", "kind", TaskKindsThen),
          OneOf("ck_processing_tasks_status", "status", TaskStatusesThen)}),
       CreateIndex("processing_tasks", {"dictionary_id", "created_at"})>>,
   downgrade |->
     <<DropIndex("processing_tasks", {"dictionary_id", "created_at"}),
       DropTable("processing_tasks")>>]

(* Account self-service: user display name, session user-agent, email-change tokens *)
acct_0029 ==
  [after |-> {"merge_0028"},
   upgrade |->
     <<AddColumn("users", "name"),
       AddColumn("authenticated_sessions", "user_agent"),
       CreateTable("email_change_tokens",
         {"id", "user_id", "new_email", "token_digest", "expires_at", "created_at"},
         {"consumed_at"}, {Key("user_id", "users", "CASCADE")},
         {{"id"}, {"token_digest"}}, {}),
       CreateIndex("email_change_tokens", {"user_id"})>>,
   downgrade |->
     <<DropIndex("email_change_tokens", {"user_id"}),
       DropTable("email_change_tokens"),
       DropColumn("authenticated_sessions", "user_agent"),
       DropColumn("users", "name")>>]

(* Merge the two 0029 heads into one lineage *)
merge_0030 ==
  [after |-> {"proc_0029", "acct_0029"},
   upgrade |-> <<>>,
   downgrade |-> <<>>]

(* Create the review-queue reviewer-decision audit trail table *)
review_0031 ==
  [after |-> {"merge_0030"},
   upgrade |->
     <<CreateTable("review_events",
         {"id", "entry_id", "dictionary_id", "decision", "reviewer_user_id",
          "occurred_at"},
         {"note"},
         {Key("dictionary_id", "dictionaries", "CASCADE"),
          Key("reviewer_user_id", "users", "CASCADE")},
         {{"id"}},
         {OneOf("ck_review_events_review_event_decision", "decision", {"approved",
            "sent_back"})}),
       CreateIndex("review_events", {"entry_id"}),
       CreateIndex("review_events", {"dictionary_id"}),
       CreateIndex("review_events", {"occurred_at"})>>,
   downgrade |->
     <<DropIndex("review_events", {"occurred_at"}),
       DropIndex("review_events", {"dictionary_id"}),
       DropIndex("review_events", {"entry_id"}),
       DropTable("review_events")>>]

(* Add article_schemas.presentation_formula for BH-148 entry rendering *)
render_0032 ==
  [after |-> {"review_0031"},
   upgrade |-> <<AddColumn("article_schemas", "presentation_formula")>>,
   downgrade |-> <<DropColumn("article_schemas", "presentation_formula")>>]

(* Add dictionary_settlement_mappings.district (raion short form) *)
geo_0033 ==
  [after |-> {"render_0032"},
   upgrade |-> <<AddColumn("dictionary_settlement_mappings", "district")>>,
   downgrade |-> <<DropColumn("dictionary_settlement_mappings", "district")>>]

(* Link an entry field to the BH-30 settlement mapping it resolves to *)
geo_0034 ==
  [after |-> {"geo_0033"},
   upgrade |->
     <<AddKeyColumn("entry_fields", Key("settlement_mapping_id",
       "dictionary_settlement_mappings", "SET NULL"))>>,
   downgrade |-> <<DropColumn("entry_fields", "settlement_mapping_id")>>]

(* The directory of scripts. *)
Revisions ==
  [bh179_0001 |-> bh179_0001,
   bh5_0002 |-> bh5_0002,
   bh3_0003 |-> bh3_0003,
   bh10_0004 |-> bh10_0004,
   bh26_0005 |-> bh26_0005,
   bh26_0006 |-> bh26_0006,
   bh29_0007 |-> bh29_0007,
   bh30_0008 |-> bh30_0008,
   bh30_0009 |-> bh30_0009,
   bh31_0010 |-> bh31_0010,
   bh28_0011 |-> bh28_0011,
   bh188_0012 |-> bh188_0012,
   bh54_0013 |-> bh54_0013,
   bh56_0014 |-> bh56_0014,
   bh58_0015 |-> bh58_0015,
   ocr_0016 |-> ocr_0016,
   box2_0017 |-> box2_0017,
   notif_0018 |-> notif_0018,
   bh170_0019 |-> bh170_0019,
   bh113_0020 |-> bh113_0020,
   bh148_0021 |-> bh148_0021,
   bh148_0022 |-> bh148_0022,
   bh148_0023 |-> bh148_0023,
   bh148_0024 |-> bh148_0024,
   bh148_0025 |-> bh148_0025,
   bh148_0026 |-> bh148_0026,
   bh190_0027 |-> bh190_0027,
   vesum_0027 |-> vesum_0027,
   merge_0028 |-> merge_0028,
   proc_0029 |-> proc_0029,
   acct_0029 |-> acct_0029,
   merge_0030 |-> merge_0030,
   review_0031 |-> review_0031,
   render_0032 |-> render_0032,
   geo_0033 |-> geo_0033,
   geo_0034 |-> geo_0034]
================================================================================
