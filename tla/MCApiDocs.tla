------------------------------ MODULE MCApiDocs ------------------------------
(* TLC instance of ApiDocs: the default settings, an empty base path, a JSON  *)
(* document, and a page beside the documents instead of below them.           *)
EXTENDS ApiDocs

MCDefault == [base |-> <<<<"api">>>>,
              swaggerUri |-> <<<<"openapi">>, <<"docs">>, <<"swagger-ui">>>>,
              openApiUri |-> <<<<"openapi">>, <<"docs">>>>,
              openApiFileUri |-> <<<<"openapi">>, <<"docs">>, <<"openapi", "yaml">>>>]

MCConfigs ==
    {MCDefault,
     [MCDefault EXCEPT !.base = <<>>],
     [MCDefault EXCEPT !.openApiFileUri = <<<<"openapi">>, <<"docs">>, <<"market", "json">>>>],
     [MCDefault EXCEPT !.swaggerUri = <<<<"swagger">>>>]}

ASSUME MCConfigsFitTogether == \A c \in MCConfigs : FitTogether(c)
=============================================================================
