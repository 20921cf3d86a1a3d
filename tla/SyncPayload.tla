---------------------------- MODULE SyncPayload ----------------------------
(***************************************************************************)
(* The fields of the five entity types: those a document has (schemas),    *)
(* those a request may set (DTOs), those that create() stores, and those   *)
(* that SyncService puts into the payload for Stage 1.  Each of the five   *)
(* lists is kept by hand in a file of its own, for every type.             *)
(*                                                                         *)
(* A payload is made of the fields that the code picks by name and of      *)
(* every other field of doc.toObject() that it does not omit by name.      *)
(***************************************************************************)

Types == {"client", "tenant", "application", "domain", "branding"}

-----------------------------------------------------------------------------
(* Schemas: the fields with "required: true", and the others. *)

ClientSchema ==
    [required |-> {"name", "enabled", "password_check_endpoint",
                   "user_migrated_endpoint", "lookup_email_endpoint",
                   "slug", "logo", "allow_auto_link"},
     optional |-> {}]

TenantSchema ==
    [required |-> {"client_id", "name", "enabled", "logo"}, optional |-> {}]

ApplicationSchema ==
    [required |-> {"name", "enabled", "redirect_uris"},
     optional |-> {"pkce_required"}]

DomainSchema ==
    [required |-> {"host", "tenant_id", "enabled"},
     optional |-> {"default_tenant_id", "application_id"}]

BrandingSchema == [required |-> {"tenant_id", "enabled"}, optional |-> {}]

Schema ==
    [client |-> ClientSchema, tenant |-> TenantSchema,
     application |-> ApplicationSchema, domain |-> DomainSchema,
     branding |-> BrandingSchema]

Fields(t) == Schema[t].required \cup Schema[t].optional

\* The field with a unique index, for the two types that have one.
KeyField == [domain |-> "host", branding |-> "tenant_id"]

\* What mongoose adds by itself; brandings rename their timestamps.
Timestamps(t) ==
    IF t = "branding" THEN {"created_at", "updated_at"}
                      ELSE {"createdAt", "updatedAt"}

-----------------------------------------------------------------------------
(* DTOs for create: the fields a body must have and may have, and those     *)
(* whose decorators let an empty string (IsString) through.                 *)

CreateClientDto ==
    [must |-> {"name", "password_check_endpoint", "user_migrated_endpoint",
               "lookup_email_endpoint", "slug", "logo", "allow_auto_link"},
     may  |-> {"enabled"},
     text |-> {"name", "password_check_endpoint", "user_migrated_endpoint",
               "slug", "logo"}]

CreateTenantDto ==
    [must |-> {"client_id", "name", "logo"}, may |-> {"enabled"},
     text |-> {"client_id", "name", "logo"}]

CreateApplicationDto ==
    [must |-> {"name", "redirect_uris"}, may |-> {"enabled", "pkce_required"},
     text |-> {"name"}]

CreateDomainDto ==
    [must |-> {"host", "tenant_id"},
     may  |-> {"default_tenant_id", "application_id", "enabled"},
     text |-> {"host", "tenant_id"}]

CreateBrandingDto ==
    [must |-> {"tenant_id"}, may |-> {"enabled"}, text |-> {}]

CreateDto ==
    [client |-> CreateClientDto, tenant |-> CreateTenantDto,
     application |-> CreateApplicationDto, domain |-> CreateDomainDto,
     branding |-> CreateBrandingDto]

(* DTOs for update: every field may be left out, and IsOptional lets null   *)
(* through.                                                                 *)

UpdateClientDto ==
    {"name", "enabled", "password_check_endpoint", "user_migrated_endpoint",
     "lookup_email_endpoint", "slug", "logo", "allow_auto_link"}
UpdateTenantDto == {"client_id", "name", "enabled", "logo"}
UpdateApplicationDto == {"name", "enabled", "redirect_uris", "pkce_required"}
UpdateDomainDto == {"default_tenant_id", "application_id", "enabled"}
UpdateBrandingDto == {"enabled"}

\* Mutant of UpdateDto: that of a branding lists the fields of a create.
UpdateDtoAsCreate ==
    [client |-> UpdateClientDto, tenant |-> UpdateTenantDto,
     application |-> UpdateApplicationDto, domain |-> UpdateDomainDto,
     branding |-> UpdateBrandingDto \cup {"tenant_id"}]

UpdateDto ==
    [client |-> UpdateClientDto, tenant |-> UpdateTenantDto,
     application |-> UpdateApplicationDto, domain |-> UpdateDomainDto,
     branding |-> UpdateBrandingDto]

-----------------------------------------------------------------------------
(* create(): the fields that the constructor of the document is given. *)

NewClient ==
    {"name", "enabled", "password_check_endpoint", "user_migrated_endpoint",
     "lookup_email_endpoint", "slug", "logo", "allow_auto_link"}
NewTenant == {"client_id", "name", "enabled", "logo"}
NewApplication == {"name", "enabled", "redirect_uris", "pkce_required"}
NewDomain == {"host", "tenant_id", "default_tenant_id", "application_id", "enabled"}
NewBranding == {"tenant_id", "enabled"}

New ==
    [client |-> NewClient, tenant |-> NewTenant, application |-> NewApplication,
     domain |-> NewDomain, branding |-> NewBranding]

-----------------------------------------------------------------------------
(* SyncService: the fields picked by name, and those that are not spread. *)

SyncClient ==
    LET picked == {"enabled", "name", "password_check_endpoint",
                   "user_migrated_endpoint", "lookup_email_endpoint", "slug"}
    IN  [picked  |-> picked,
         omitted |-> picked \cup
                     {"_id", "createdAt", "updatedAt", "deleted_at", "last_sync"}]

\* Mutant of SyncApplication: pkce_required is omitted and no longer picked.
SyncApplicationUnpicked ==
    [picked  |-> {"enabled", "name", "redirect_uris"},
     omitted |-> {"_id", "enabled", "name", "redirect_uris", "pkce_required",
                  "createdAt", "updatedAt", "deleted_at", "last_sync"}]

SyncApplication ==
    LET picked == {"enabled", "name", "redirect_uris", "pkce_required"}
    IN  [picked  |-> picked,
         omitted |-> picked \cup
                     {"_id", "createdAt", "updatedAt", "deleted_at", "last_sync"}]

SyncTenant ==
    LET picked == {"client_id", "enabled", "name"}
    IN  [picked  |-> picked,
         omitted |-> picked \cup
                     {"_id", "createdAt", "updatedAt", "deleted_at", "last_sync"}]

SyncDomain ==
    LET picked == {"host", "enabled", "tenant_id", "default_tenant_id",
                   "application_id"}
    IN  [picked  |-> picked,
         omitted |-> picked \cup
                     {"_id", "createdAt", "updatedAt", "deleted_at", "last_sync"}]

\* Mutant of SyncBranding: the omissions are those of the other types.
SyncBrandingCamelCase ==
    LET picked == {"tenant_id", "enabled"}
    IN  [picked  |-> picked,
         omitted |-> picked \cup
                     {"_id", "createdAt", "updatedAt", "deleted_at", "last_sync"}]

SyncBranding ==
    LET picked == {"tenant_id", "enabled"}
    IN  [picked  |-> picked,
         omitted |-> picked \cup
                     {"_id", "created_at", "updated_at", "deleted_at", "last_sync"}]

Builder ==
    [client |-> SyncClient, tenant |-> SyncTenant,
     application |-> SyncApplication, domain |-> SyncDomain,
     branding |-> SyncBranding]

-----------------------------------------------------------------------------

\* The fields of doc.toObject() that are not the user's.
Inner(doc) ==
    {"_id", "__v"} \cup Timestamps(doc.type)
      \cup (IF doc.deleted THEN {"deleted_at"} ELSE {})
      \cup (IF doc.last_sync THEN {"last_sync"} ELSE {})

\* The entity of a payload as it is sent; what is undefined is not.
Payload(doc) ==
    LET b      == Builder[doc.type]
        given  == DOMAIN doc.data \cap (b.picked \cup (Fields(doc.type) \ b.omitted))
        spread == Inner(doc) \ b.omitted
    IN  [f \in {"id"} \cup given \cup spread |->
            IF f \in given THEN doc.data[f] ELSE "inner"]

=============================================================================
