SPECIFICATION Spec
CONSTANTS
    k1 = k1
    k2 = k2
    Chaves = {k1, k2}
    Arquivos <- Publicados
    Fontes = {"dfp", "fre", "fca", "ipe", "vlmo", "cgvn"}
    Ruim = "ruim"
    Estouro = "estouro"
    Zero = "zero"
    Vazio = "vazio"
    MaxCorridas = 3
    MaxPublicacoes = 2
    MaxConfigs = 1
    MaxCadastros = 1
    MaxQuedas = 1
    MaxReplays = 1
    MaxRefeitas = 1
    MaxImprevistos = 1
INVARIANT TipoPromocao
 
 
 
PROPERTY SoSucessoApaga
CHECK_DEADLOCK FALSE
